---- MODULE Spec2Model ----
(***************************************************************************)
(* A model of agentv: the canonical store (crates/store), its migration    *)
(* runner, the per-source batch ingestion (desktop and CLI commands) and   *)
(* the change-driven watcher (crates/ingest).                              *)
(*                                                                         *)
(* Conventions.                                                            *)
(*   Option<T>        None is <<>>, Some(x) is <<x>>.                      *)
(*   Uuid::new_v4()   the next value of the counter nextUuid (fresh and    *)
(*                    never repeated); Uuid::nil() is 0.                   *)
(*   DateTime<Utc>    an integer instant; to_rfc3339() of a UTC instant is *)
(*                    injective and order preserving, so the stored text   *)
(*                    is represented by the same integer.                  *)
(*   A table          the set of its rows, each row a record.              *)
(***************************************************************************)
EXTENDS Integers, Sequences, FiniteSets, TLC

VARIABLES
    \* ---- the embedded database (crates/store)
    sessions,        \* rows of table sessions
    events,          \* rows of table events
    foreign_keys,    \* whether this build of SQLite enforces FOREIGN KEY clauses
    nextUuid,        \* source of fresh Uuid::new_v4() values
    ncalls,          \* number of store calls made so far (bounded)
    last,            \* the last store call: its arguments, outcome and pre-state
    inserted,        \* (source, external_id) pairs whose upsert statement succeeded
    \* ---- the migration runner (Database::migrate)
    schema,          \* schema statements in effect: pairs <<migration name, index>>
    migrations_table,\* rows of _migrations in id order: the recorded names
    mig,             \* the migrate() call in progress or last returned
    mprev,           \* what the migrate() call before it did
    mcalls,          \* number of migrate() calls started (bounded)
    \* ---- one batch ingestion of one source (ingest_single_source)
    files,           \* the source directory: the files discovery will list, in order
    batch,           \* the ingestion run: source, descriptors, position, counters
    \* ---- the file watcher task of Watcher::watch_all
    clock,           \* the time, in units of 250 ms
    chan,            \* the mpsc channel from the notify callback to the task
    pending_events,  \* HashMap source name -> time of its last notification
    next_tick,       \* when debounce_interval fires next
    loop,            \* where the task is: at select!, or inside an ingestion
    stats,           \* the IngestStats pushed so far (their source)
    nchanges,        \* number of filesystem changes so far (bounded)
    hist,            \* history: receipts, bursts and ingestion runs per source name
    \* ---- queries on the store
    search,          \* the last Database::search_events call and what it returned
    \* ---- one parse of one session file
    pfile,           \* the file: its source and its lines
    parsed,          \* what parse_session returned for it, once called
    \* ---- calls of the pure functions
    datefilter,      \* a relative date filter given to an entry point, and the outcome
    instant,         \* an integer timestamp and its normalization
    cost,            \* a calculate_cost call and its result
    threads,         \* a rebuild_conversations call and its result
    \* ---- overlapping ingestions, the Crush poller
    runs,            \* two ingestions of one source file running at the same time
    crush,           \* the watch_crush task
    \* ---- the full-text shadow tables, the metrics table, an ingestion entry point
    fts,             \* sessions and events with their rowids, and the two FTS5 indexes
    metrics,         \* table session_metrics and the events the metrics are computed from
    ingestrun        \* one run of an ingestion entry point on one database file

storeVars == <<sessions, events, foreign_keys, nextUuid, ncalls, last, inserted>>

migVars == <<schema, migrations_table, mig, mprev, mcalls>>

ingestVars == <<files, batch>>

watchVars == <<clock, chan, pending_events, next_tick, loop, stats, nchanges, hist>>

auxVars == <<search, pfile, parsed, datefilter, instant, cost, threads, runs, crush>>

extVars == <<fts, metrics, ingestrun>>

vars == <<storeVars, migVars, ingestVars, watchVars, auxVars, extVars>>

\* ------------------------------------------------------------------ bounds

MaxCalls == 3
MaxEvents == 1
MaxMigrateCalls == 3
MaxFiles == 3
MaxChanges == 3
MaxWatchTime == 22

\* ------------------------------------------------------------- value sets

None == <<>>
Some(x) == <<x>>

\* Option::unwrap_or_default for Option<String>
unwrap_or_default(o) == IF o = None THEN "" ELSE o[1]

\* The (source, external_id) pairs the store is exercised with: two share the
\* source, two share the external id.
StoreKeys == {<<"claude", "a">>, <<"claude", "b">>, <<"codex", "a">>}

\* What an adapter may derive from a source file at two moments of its life:
\* <<project, title, created_at, updated_at, raw_payload, number of events>>.
\* raw_payload is represented by the line_count it carries.
Contents ==
    {<<None, None, 2, 2, 1, 0>>,
     <<Some("proj"), Some("t1"), 1, 3, 2, MaxEvents>>}

Key(r) == <<r.source, r.external_id>>

\* core::Session as an adapter builds it: a fresh id, the descriptor's key
Session(id, source, external_id, project, title, created_at, updated_at, raw_payload) ==
    [id |-> id, source |-> source, external_id |-> external_id, project |-> project,
     title |-> title, created_at |-> created_at, updated_at |-> updated_at,
     raw_payload |-> raw_payload]

\* core::Event
Event(id, session_id, kind, role, content, timestamp) ==
    [id |-> id, session_id |-> session_id, kind |-> kind, role |-> role,
     content |-> content, timestamp |-> timestamp]

\* The i-th event an adapter returns for a session: a fresh id and the
\* session id of this parse (claude.rs 235-241, codex.rs 315-321).
ParsedEvent(i, base, session_id, ts) ==
    IF i % 2 = 1
    THEN Event(base + i, session_id, "message", Some("user"), Some("hello"), ts)
    ELSE Event(base + i, session_id, "system", None, None, ts)

ParsedEvents(k, base, session_id, ts) ==
    [i \in 1..k |-> ParsedEvent(i, base, session_id, ts)]

\* --------------------------------------------------------- SQL statements

\* INSERT_SESSION without its ON CONFLICT clause and without the UNIQUE
\* constraint behind it: every call adds a row.
INSERT_SESSION_no_conflict(tbl, p) ==
    [ok |-> TRUE, rows |-> tbl \cup {p}]

\* INSERT_SESSION as INSERT OR REPLACE: the conflicting row is replaced whole,
\* id and created_at included.
INSERT_SESSION_replace(tbl, p) ==
    [ok |-> TRUE, rows |-> {r \in tbl : Key(r) # Key(p)} \cup {p}]

\* queries::INSERT_SESSION on table tbl with bound parameters p.
\* UNIQUE(source, external_id) is the conflict target: a row with the same key
\* is updated in place; a clash on the primary key alone is a constraint error.
INSERT_SESSION(tbl, p) ==
    LET same == {r \in tbl : Key(r) = Key(p)}
    IN  IF same # {}
        THEN [ok |-> TRUE,
              rows |-> (tbl \ same) \cup
                       {[r EXCEPT !.title = p.title,
                                  !.updated_at = p.updated_at,
                                  !.raw_payload = p.raw_payload] : r \in same}]
        ELSE IF \E r \in tbl : r.id = p.id
        THEN [ok |-> FALSE, rows |-> tbl]
        ELSE [ok |-> TRUE, rows |-> tbl \cup {p}]

\* queries::INSERT_EVENT on table ev with bound parameters p; stbl is the
\* sessions table the FOREIGN KEY clause of events refers to.
INSERT_EVENT(ev, stbl, fk, p) ==
    IF \E r \in ev : r.id = p.id
    THEN [ok |-> FALSE, rows |-> ev]
    ELSE IF fk /\ ~(\E s \in stbl : s.id = p.session_id)
    THEN [ok |-> FALSE, rows |-> ev]
    ELSE [ok |-> TRUE, rows |-> ev \cup {p}]

\* ---------------------------------------------------------- Database API

\* The parameters Database::insert_session binds: None becomes ''.
SessionParams(s) ==
    [id |-> s.id, source |-> s.source, external_id |-> s.external_id,
     project |-> Some(unwrap_or_default(s.project)),
     title |-> Some(unwrap_or_default(s.title)),
     created_at |-> s.created_at, updated_at |-> s.updated_at,
     raw_payload |-> s.raw_payload]

\* The parameters Database::insert_event binds.
EventParams(e) ==
    [id |-> e.id, session_id |-> e.session_id, kind |-> e.kind,
     role |-> Some(unwrap_or_default(e.role)),
     content |-> Some(unwrap_or_default(e.content)),
     timestamp |-> e.timestamp]

\* Database::insert_session on database db = [sessions, events]; io_ok is
\* whether the connection call itself succeeds (no I/O error).
insert_session(db, s, io_ok) ==
    IF ~io_ok THEN [ok |-> FALSE, db |-> db]
    ELSE LET r == INSERT_SESSION(db.sessions, SessionParams(s))
         IN  [ok |-> r.ok, db |-> [db EXCEPT !.sessions = r.rows]]

\* Database::insert_event
insert_event(db, e, fk, io_ok) ==
    IF ~io_ok THEN [ok |-> FALSE, db |-> db]
    ELSE LET r == INSERT_EVENT(db.events, db.sessions, fk, EventParams(e))
         IN  [ok |-> r.ok, db |-> [db EXCEPT !.events = r.rows]]

\* The loop of insert_session_with_events over events evs from index i:
\* each insert is its own autocommit statement and the first error returns.
\* fail_at is the index of the statement whose connection call fails (0: the
\* session upsert, i: the i-th event, Len(evs)+1: none).
RECURSIVE insert_events(_, _, _, _, _)
insert_events(db, evs, i, fk, fail_at) ==
    IF i > Len(evs) THEN [ok |-> TRUE, db |-> db]
    ELSE LET r == insert_event(db, evs[i], fk, fail_at # i)
         IN  IF ~r.ok THEN [ok |-> FALSE, db |-> r.db]
             ELSE insert_events(r.db, evs, i + 1, fk, fail_at)

\* Database::insert_session_with_events
insert_session_with_events(db, s, evs, fk, fail_at) ==
    LET r == insert_session(db, s, fail_at # 0)
    IN  IF ~r.ok THEN [ok |-> FALSE, db |-> r.db]
        ELSE insert_events(r.db, evs, 1, fk, fail_at)

\* ------------------------------------------------------------ store spec

DB == [sessions |-> sessions, events |-> events]

NoCall == [op |-> "none"]

StoreInit ==
    /\ sessions = {}
    /\ events = {}
    /\ foreign_keys \in BOOLEAN
    /\ nextUuid = 1
    /\ ncalls = 0
    /\ last = NoCall
    /\ inserted = {}

\* A caller builds a Session with a fresh id and calls insert_session.
CallInsertSession ==
    /\ ncalls < MaxCalls
    /\ \E key \in StoreKeys, c \in Contents, io_ok \in BOOLEAN :
        LET s == Session(nextUuid, key[1], key[2], c[1], c[2], c[3], c[4], c[5])
            r == insert_session(DB, s, io_ok)
        IN  /\ sessions' = r.db.sessions
            /\ events' = r.db.events
            /\ nextUuid' = nextUuid + 1
            /\ last' = [op |-> "insert_session", ok |-> r.ok, session |-> s,
                        events |-> <<>>, fail_at |-> IF io_ok THEN 1 ELSE 0,
                        pre |-> DB]
            /\ inserted' = IF r.ok THEN inserted \cup {Key(s)} ELSE inserted
    /\ ncalls' = ncalls + 1
    /\ UNCHANGED <<foreign_keys, migVars, ingestVars, watchVars, auxVars, extVars>>

\* An ingestion parses one descriptor, with a key of keys and a content of
\* contents, into (Session, events) and stores the pair with
\* insert_session_with_events.
IngestOne(keys, contents, max) ==
    /\ ncalls < max
    /\ \E key \in keys, c \in contents :
       \E fail_at \in 0..(c[6] + 1) :
        LET k == c[6]
            s == Session(nextUuid, key[1], key[2], c[1], c[2], c[3], c[4], c[5])
            evs == ParsedEvents(k, nextUuid, s.id, c[3])
            r == insert_session_with_events(DB, s, evs, foreign_keys, fail_at)
            up == insert_session(DB, s, fail_at # 0)
        IN  /\ sessions' = r.db.sessions
            /\ events' = r.db.events
            /\ nextUuid' = nextUuid + 1 + k
            /\ last' = [op |-> "insert_session_with_events", ok |-> r.ok, session |-> s,
                        events |-> evs, fail_at |-> fail_at, pre |-> DB]
            /\ inserted' = IF up.ok THEN inserted \cup {Key(s)} ELSE inserted
    /\ ncalls' = ncalls + 1
    /\ UNCHANGED <<foreign_keys, migVars, ingestVars, watchVars, auxVars, extVars>>

CallInsertSessionWithEvents == IngestOne(StoreKeys, Contents, MaxCalls)

StoreNext ==
    \/ CallInsertSession
    \/ CallInsertSessionWithEvents

\* ------------------------------------------------------------- migrations

Range(f) == {f[i] : i \in DOMAIN f}

Rep(n, x) == [i \in 1..n |-> x]

\* The two kinds of statement the migrations are made of: CREATE TABLE / INDEX /
\* VIRTUAL TABLE / TRIGGER ... IF NOT EXISTS, which succeeds whether or not its
\* object exists, and ALTER TABLE ... ADD COLUMN, which fails when the column
\* is already there.
IfNotExists == "create_if_not_exists"
AddColumn == "alter_add_column"

\* migrations::MIGRATIONS: the name and the statements of each migration.
MIGRATIONS ==
    << [name |-> "001_initial_schema", sql |-> Rep(8, IfNotExists)],
       [name |-> "002_fts5_virtual_tables", sql |-> Rep(8, IfNotExists)],
       [name |-> "003_session_metrics_and_tool_calls", sql |-> Rep(9, IfNotExists)],
       [name |-> "004_add_events_composite_index", sql |-> Rep(1, IfNotExists)],
       [name |-> "005_add_cost_and_latency_metrics",
        sql |-> Rep(9, AddColumn) \o Rep(3, IfNotExists)] >>

\* One statement of a batch on schema sch; io_ok: no I/O error.
execute_statement(sch, name, sql, j, io_ok) ==
    IF ~io_ok THEN [ok |-> FALSE, schema |-> sch]
    ELSE IF sql[j] = AddColumn /\ <<name, j>> \in sch
    THEN [ok |-> FALSE, schema |-> sch]
    ELSE [ok |-> TRUE, schema |-> sch \cup {<<name, j>>}]

\* Connection::execute_batch from statement j on: statements run one after the
\* other in autocommit mode and the first error ends the batch, what ran
\* before it staying in effect. fail_at is the statement hit by an I/O error.
\* n counts the statements started.
RECURSIVE execute_batch(_, _, _, _, _, _)
execute_batch(sch, name, sql, j, fail_at, n) ==
    IF j > Len(sql) THEN [ok |-> TRUE, schema |-> sch, executed |-> n]
    ELSE LET r == execute_statement(sch, name, sql, j, fail_at # j)
         IN  IF ~r.ok THEN [ok |-> FALSE, schema |-> r.schema, executed |-> n + 1]
             ELSE execute_batch(r.schema, name, sql, j + 1, fail_at, n + 1)

\* INSERT INTO _migrations (name): name is UNIQUE.
insert_migration(tbl, name, io_ok) ==
    IF ~io_ok \/ name \in Range(tbl) THEN [ok |-> FALSE, rows |-> tbl]
    ELSE [ok |-> TRUE, rows |-> Append(tbl, name)]

\* The closure migrate() runs for a pending migration m (db.rs 122-128):
\* the batch, then the bookkeeping row. fail_at in 1..Len(m.sql) is the
\* statement hit by an I/O error, Len(m.sql)+1 the INSERT, Len(m.sql)+2 none.
apply_migration_record_first(sch, tbl, m, fail_at) ==
    LET i == insert_migration(tbl, m.name, fail_at # Len(m.sql) + 1)
        b == execute_batch(sch, m.name, m.sql, 1, fail_at, 0)
    IN  IF ~i.ok THEN [ok |-> FALSE, batch_ok |-> TRUE, schema |-> sch, rows |-> tbl,
                       executed |-> 0]
        ELSE [ok |-> b.ok, batch_ok |-> b.ok, schema |-> b.schema, rows |-> i.rows,
              executed |-> b.executed]

apply_migration(sch, tbl, m, fail_at) ==
    LET b == execute_batch(sch, m.name, m.sql, 1, fail_at, 0)
    IN  IF ~b.ok
        THEN [ok |-> FALSE, batch_ok |-> FALSE, schema |-> b.schema, rows |-> tbl,
              executed |-> b.executed]
        ELSE LET i == insert_migration(tbl, m.name, fail_at # Len(m.sql) + 1)
             IN  [ok |-> i.ok, batch_ok |-> TRUE, schema |-> b.schema, rows |-> i.rows,
                  executed |-> b.executed]

\* SELECT 1 FROM _migrations WHERE name = ?1 (db.rs 107-114)
already_applied_never(tbl, name) == FALSE

already_applied(tbl, name) == name \in Range(tbl)

AllRecorded(tbl) == \A i \in DOMAIN MIGRATIONS : MIGRATIONS[i].name \in Range(tbl)

MigIdle ==
    [pc |-> "idle", i |-> 0, result |-> "none", executed |-> 0, added |-> 0,
     attempted |-> {}, failed_at |-> 0, complete_at_start |-> FALSE, io_error |-> FALSE]

MigrateInit ==
    /\ schema = {}
    /\ migrations_table = <<>>
    /\ mig = MigIdle
    /\ mprev = MigIdle
    /\ mcalls = 0

\* migrate() is entered: CREATE TABLE IF NOT EXISTS _migrations (db.rs 89-101).
MigrateBegin ==
    /\ mig.pc \in {"idle", "returned"}
    /\ mcalls < MaxMigrateCalls
    /\ mcalls' = mcalls + 1
    /\ mprev' = mig
    /\ \E io_ok \in BOOLEAN :
         mig' = [MigIdle EXCEPT !.pc = IF io_ok THEN "check" ELSE "returned",
                                !.i = 1,
                                !.result = IF io_ok THEN "none" ELSE "err",
                                !.io_error = ~io_ok,
                                !.complete_at_start = AllRecorded(migrations_table)]
    /\ UNCHANGED <<schema, migrations_table, storeVars, ingestVars, watchVars, auxVars, extVars>>

\* The loop moves to the next migration, or returns Ok(()) after the last.
MigAdvance(m) ==
    IF m.i = Len(MIGRATIONS)
    THEN [m EXCEPT !.pc = "returned", !.i = m.i + 1, !.result = "ok"]
    ELSE [m EXCEPT !.pc = "check", !.i = m.i + 1]

\* The already_applied query for MIGRATIONS[mig.i] (db.rs 107-118).
MigrateCheck ==
    /\ mig.pc = "check"
    /\ \E io_ok \in BOOLEAN :
         mig' = IF ~io_ok THEN [mig EXCEPT !.pc = "returned", !.result = "err",
                                           !.io_error = TRUE]
                ELSE IF already_applied(migrations_table, MIGRATIONS[mig.i].name)
                THEN MigAdvance(mig)
                ELSE [mig EXCEPT !.pc = "apply"]
    /\ UNCHANGED <<schema, migrations_table, mprev, mcalls, storeVars, ingestVars, watchVars, auxVars, extVars>>

\* Whether the closure that returned r met the I/O error planned at fail_at
\* (a batch that ended earlier, on a duplicate column, did not get to it).
io_error_met(m, fail_at, r) ==
    \/ fail_at <= Len(m.sql) /\ r.executed >= fail_at
    \/ fail_at = Len(m.sql) + 1 /\ r.batch_ok

\* The pending migration is applied and recorded (db.rs 120-130).
MigrateApply ==
    /\ mig.pc = "apply"
    /\ LET m == MIGRATIONS[mig.i]
       IN  \E fail_at \in 1..(Len(m.sql) + 2) :
             LET r == apply_migration(schema, migrations_table, m, fail_at)
                 done == [mig EXCEPT !.executed = @ + r.executed,
                                     !.added = @ + (Len(r.rows) - Len(migrations_table)),
                                     !.attempted = @ \cup {mig.i},
                                     !.failed_at = IF r.batch_ok THEN 0 ELSE mig.i,
                                     !.io_error = @ \/ io_error_met(m, fail_at, r)]
             IN  /\ schema' = r.schema
                 /\ migrations_table' = r.rows
                 /\ mig' = IF r.ok THEN MigAdvance(done)
                           ELSE [done EXCEPT !.pc = "returned", !.result = "err"]
    /\ UNCHANGED <<mprev, mcalls, storeVars, ingestVars, watchVars, auxVars, extVars>>

MigrateNext ==
    \/ MigrateBegin
    \/ MigrateCheck
    \/ MigrateApply

\* ------------------------------------------------ line-journal adapters

\* One line of a session file. json: the line deserializes (for Codex: into a
\* CodexEvent, which needs timestamp, type and payload). type: the "type"
\* discriminator; sub: the type inside a Codex payload; ts: the timestamp when
\* it is an RFC 3339 string; text: the summary, message or cwd the line carries.
Line(json, type, sub, ts, text) ==
    [json |-> json, type |-> type, sub |-> sub, ts |-> ts, text |-> text]

BadLine == Line(FALSE, None, None, None, None)

\* ClaudeAdapter::parse_event_line: the event of one entry, or None.
claude_event(l, now) ==
    IF l.type = None THEN None
    ELSE LET ts == IF l.ts = None THEN now ELSE l.ts[1]
             ty == l.type[1]
         IN  IF ty = "user" THEN Some(Event(0, 0, "message", Some("user"), l.text, ts))
             ELSE IF ty = "assistant"
             THEN Some(Event(0, 0, "message", Some("assistant"), l.text, ts))
             ELSE IF ty = "system" THEN Some(Event(0, 0, "system", Some("system"), l.text, ts))
             ELSE IF ty \in {"progress", "file-history-snapshot", "queue-operation"}
             THEN Some(Event(0, 0, "system", None, l.text, ts))
             ELSE IF ty = "error" THEN Some(Event(0, 0, "error", None, l.text, ts))
             ELSE Some(Event(0, 0, "system", None, Some("Unknown type"), ts))

\* CodexAdapter::parse_response_item
parse_response_item(l, ts) ==
    IF l.sub = None THEN None
    ELSE IF l.sub[1] = "message" THEN Some(Event(0, 0, "message", Some("user"), l.text, ts))
    ELSE IF l.sub[1] = "function_call"
    THEN Some(Event(0, 0, "tool_call", Some("assistant"), Some("Called"), ts))
    ELSE IF l.sub[1] = "function_call_output"
    THEN Some(Event(0, 0, "tool_result", None, Some(unwrap_or_default(l.text)), ts))
    ELSE IF l.sub[1] = "reasoning"
    THEN Some(Event(0, 0, "system", Some("assistant"), Some("[Reasoning]"), ts))
    ELSE None

\* CodexAdapter::parse_event_msg
parse_event_msg(l, ts) ==
    IF l.sub = None THEN None
    ELSE IF l.sub[1] = "user_message" THEN Some(Event(0, 0, "message", Some("user"), l.text, ts))
    ELSE IF l.sub[1] = "agent_reasoning"
    THEN Some(Event(0, 0, "system", Some("assistant"), l.text, ts))
    ELSE None

ParseStart == [title |-> None, project |-> None, first |-> None, last |-> None, events |-> <<>>]

\* The loop of ClaudeAdapter::parse_session over the lines from index i.
RECURSIVE claude_lines(_, _, _, _)
claude_lines(lines, i, now, st) ==
    IF i > Len(lines) THEN st
    ELSE LET l == lines[i]
         IN  IF ~l.json THEN claude_lines(lines, i + 1, now, st)
             ELSE LET st1 == IF l.ts = None THEN st
                             ELSE [st EXCEPT !.first = IF st.first = None THEN l.ts ELSE @,
                                             !.last = l.ts]
                  IN  IF l.type = Some("summary")
                      THEN claude_lines(lines, i + 1, now,
                                        [st1 EXCEPT !.title = IF l.text = None THEN @ ELSE l.text])
                      ELSE claude_lines(lines, i + 1, now,
                                        [st1 EXCEPT !.events = @ \o claude_event(l, now)])

\* The loop of CodexAdapter::parse_session over the lines from index i.
RECURSIVE codex_lines(_, _, _, _)
codex_lines(lines, i, now, st) ==
    IF i > Len(lines) THEN st
    ELSE LET l == lines[i]
         IN  IF ~l.json THEN codex_lines(lines, i + 1, now, st)
             ELSE LET ts == IF l.ts = None THEN now ELSE l.ts[1]
                      st1 == [st EXCEPT !.first = IF st.first = None THEN Some(ts) ELSE @,
                                        !.last = Some(ts)]
                  IN  IF l.type = Some("session_meta")
                      THEN codex_lines(lines, i + 1, now, [st1 EXCEPT !.project = l.text])
                      ELSE IF l.type = Some("response_item")
                      THEN codex_lines(lines, i + 1, now,
                                       [st1 EXCEPT !.events = @ \o parse_response_item(l, ts)])
                      ELSE IF l.type = Some("event_msg")
                      THEN codex_lines(lines, i + 1, now,
                                       [st1 EXCEPT !.events = @ \o parse_event_msg(l, ts)])
                      ELSE codex_lines(lines, i + 1, now, st1)

\* parse_session of the Claude and Codex adapters on descriptor d (its
\* session_id, project directory and the file behind its path): Err when the
\* file cannot be read, else a Session with the fresh id uuid and the events,
\* each with a fresh id and the session id of this parse.
parse_session(source, d, now, uuid) ==
    IF ~d.file.readable THEN [ok |-> FALSE]
    ELSE LET st == IF source = "claude" THEN claude_lines(d.file.lines, 1, now, ParseStart)
                   ELSE codex_lines(d.file.lines, 1, now, ParseStart)
             created_at == IF st.first = None THEN now ELSE st.first[1]
             updated_at == IF st.last = None THEN created_at ELSE st.last[1]
             project == IF source = "claude" THEN Some(d.project) ELSE st.project
             title == IF source = "claude" THEN st.title ELSE None
         IN  [ok |-> TRUE,
              session |-> Session(uuid, source, d.session_id, project, title,
                                  created_at, updated_at, Len(d.file.lines)),
              events |-> [i \in 1..Len(st.events) |->
                            [st.events[i] EXCEPT !.id = uuid + i, !.session_id = uuid]]]

\* ----------------------------------------------------------- batch ingestion

\* The kinds of file a source directory is populated with.
FileKinds == {"good", "malformed", "unreadable"}

FileLines(source, kind) ==
    IF kind = "malformed" THEN <<BadLine, BadLine>>
    ELSE IF source = "claude"
    THEN << Line(TRUE, Some("summary"), None, None, Some("t1")),
            Line(TRUE, Some("user"), None, Some(1), Some("hello")),
            Line(TRUE, Some("assistant"), None, Some(3), Some("hi")) >>
    ELSE << Line(TRUE, Some("session_meta"), None, Some(1), Some("proj")),
            Line(TRUE, Some("response_item"), Some("message"), Some(2), Some("hello")),
            Line(TRUE, Some("event_msg"), Some("agent_reasoning"), Some(3), Some("hmm")) >>

FileIds == <<"a", "b", "c", "d">>

\* discover_sessions: one descriptor per file of the directory, in listing
\* order, without reading the files.
discover_sessions(source, fs) ==
    [i \in 1..Len(fs) |->
        [session_id |-> FileIds[i], project |-> "proj", kind |-> fs[i],
         file |-> [readable |-> fs[i] # "unreadable", lines |-> FileLines(source, fs[i])]]]

NowTimes == {8, 9}

\* The loop body's two outcomes (ingest.rs 30-41): count and go on.
ingest_failed_abort(b, o) ==
    [b EXCEPT !.idx = Len(b.descriptors) + 1, !.failed = @ + 1, !.outcomes = Append(@, o)]

ingest_failed(b, o) ==
    [b EXCEPT !.idx = @ + 1, !.failed = @ + 1, !.outcomes = Append(@, o)]

ingest_imported(b, o) ==
    [b EXCEPT !.idx = @ + 1, !.imported = @ + 1, !.outcomes = Append(@, o)]

Outcome(what, s, evs) == [what |-> what, session |-> s, events |-> evs]

IngestInit ==
    /\ files \in UNION {[1..n -> FileKinds] : n \in 0..MaxFiles}
    /\ batch \in {[pc |-> "idle", source |-> src, descriptors |-> <<>>, idx |-> 0,
                   imported |-> 0, failed |-> 0, outcomes |-> <<>>, result |-> None] :
                  src \in {"claude", "codex"}}

\* ingest_claude / ingest_codex start: discovery (ingest.rs 25-28, 48-51).
IngestStart ==
    /\ batch.pc = "idle"
    /\ batch' = [batch EXCEPT !.pc = "running",
                              !.descriptors = discover_sessions(batch.source, files),
                              !.idx = 1]
    /\ UNCHANGED <<files, storeVars, migVars, watchVars, auxVars, extVars>>

\* One iteration of the loop: parse the descriptor, store the pair, count.
IngestStep ==
    /\ batch.pc = "running"
    /\ batch.idx <= Len(batch.descriptors)
    /\ \E now \in NowTimes :
        LET d == batch.descriptors[batch.idx]
            p == parse_session(batch.source, d, now, nextUuid)
        IN  IF ~p.ok
            THEN /\ batch' = ingest_failed(batch, Outcome("parse_err", None, <<>>))
                 /\ UNCHANGED storeVars
            ELSE \E fail_at \in 0..(Len(p.events) + 1) :
                   LET r == insert_session_with_events(DB, p.session, p.events,
                                                       foreign_keys, fail_at)
                       up == insert_session(DB, p.session, fail_at # 0)
                   IN  /\ sessions' = r.db.sessions
                       /\ events' = r.db.events
                       /\ nextUuid' = nextUuid + 1 + Len(p.events)
                       /\ ncalls' = ncalls + 1
                       /\ last' = [op |-> "insert_session_with_events", ok |-> r.ok,
                                   session |-> p.session, events |-> p.events,
                                   fail_at |-> fail_at, pre |-> DB]
                       /\ inserted' = IF up.ok THEN inserted \cup {Key(p.session)}
                                      ELSE inserted
                       /\ batch' = IF r.ok
                                   THEN ingest_imported(batch, Outcome("ok", Some(p.session), p.events))
                                   ELSE ingest_failed(batch, Outcome("store_err", Some(p.session), p.events))
                       /\ UNCHANGED foreign_keys
    /\ UNCHANGED <<files, migVars, watchVars, auxVars, extVars>>

\* ingest_single_source builds the IngestResult (ingest.rs 18-20).
IngestFinish ==
    /\ batch.pc = "running"
    /\ batch.idx > Len(batch.descriptors)
    /\ batch' = [batch EXCEPT !.pc = "done",
                              !.result = Some([imported |-> batch.imported,
                                               failed |-> batch.failed,
                                               total |-> batch.imported + batch.failed])]
    /\ UNCHANGED <<files, storeVars, migVars, watchVars, auxVars, extVars>>

IngestNext ==
    \/ IngestStart
    \/ IngestStep
    \/ IngestFinish

\* The variables of an ingestion that is not part of the run.
IngestOff ==
    /\ files = <<>>
    /\ batch = [pc |-> "off", source |-> "claude", descriptors |-> <<>>, idx |-> 0,
                imported |-> 0, failed |-> 0, outcomes |-> <<>>, result |-> None]

\* ----------------------------------------------------------------- watcher

\* Time is counted in units of 250 ms.
\* WatcherConfig::default().debounce_duration: 2 s.
debounce_duration == 8

\* interval(Duration::from_millis(500)) of the file watcher task.
tick_interval == 2

\* mpsc::channel(100)
channel_capacity == 100

\* The directories watch_all registers with the notify watcher: the Claude
\* projects directory and the Codex sessions directory (OpenCode has none).
WatchedSources == {"claude", "codex"}

\* The source name the notify callback of watch_all sends for a change under
\* the watched directory of source cause (watcher.rs 65-69).
callback_source(cause) == "claude"

\* Sender::try_send: the message is dropped when the channel is full.
try_send(ch, msg) == IF Len(ch) < channel_capacity THEN Append(ch, msg) ELSE ch

\* HashMap::insert and HashMap::remove on pending_events.
map_insert(m, k, v) == [x \in DOMAIN m \cup {k} |-> IF x = k THEN v ELSE m[x]]
map_remove(m, k) == [x \in DOMAIN m \ {k} |-> m[x]]

\* now.duration_since(ts).unwrap_or_default()
duration_since(t, ts) == IF t >= ts THEN t - ts ELSE 0

\* The sources the tick handler finds ready (watcher.rs 116-120).
debounce_ready_all(pending, t) == DOMAIN pending

debounce_ready(pending, t) ==
    {s \in DOMAIN pending : duration_since(t, pending[s]) >= debounce_duration}

\* The orders in which the HashMap may yield the ready sources.
Orders(S) == {f \in [1..Cardinality(S) -> S] : \A i, j \in DOMAIN f : i # j => f[i] # f[j]}

HistInit ==
    [s \in {"claude", "codex"} |->
        [last_recv |-> None, burst_start |-> None, bursts |-> 0, causes |-> {}, runs |-> <<>>,
         dropped |-> None]]

WatchInit ==
    /\ clock = 0
    /\ chan = <<>>
    /\ pending_events = <<>>
    /\ next_tick = 0
    /\ loop = [pc |-> "select", cur |-> None, rest |-> <<>>]
    /\ stats = <<>>
    /\ nchanges = 0
    /\ hist = HistInit

\* A file changes under a watched directory: the notify callback runs.
\* hist[cause].dropped remembers the last notification try_send dropped for a
\* change under the directory of cause, and how many runs of that source had
\* started by then.
FsChange ==
    /\ nchanges < MaxChanges
    /\ nchanges' = nchanges + 1
    /\ \E cause \in WatchedSources :
         /\ chan' = try_send(chan, [source |-> callback_source(cause), cause |-> cause])
         /\ hist' = IF Len(chan) < channel_capacity THEN hist
                    ELSE [hist EXCEPT ![cause].dropped =
                            Some([at |-> clock, runs_before |-> Len(hist[cause].runs)])]
    /\ UNCHANGED <<clock, pending_events, next_tick, loop, stats,
                   storeVars, migVars, ingestVars, auxVars, extVars>>

\* select! takes the rx.recv() branch (watcher.rs 111-113).
Recv ==
    /\ loop.pc = "select"
    /\ chan # <<>>
    /\ LET msg == Head(chan)
           h == hist[msg.source]
           fresh == h.last_recv = None \/ clock - h.last_recv[1] >= debounce_duration
       IN  /\ pending_events' = map_insert(pending_events, msg.source, clock)
           /\ hist' = [hist EXCEPT ![msg.source] =
                         [h EXCEPT !.last_recv = Some(clock),
                                   !.burst_start = IF fresh THEN Some(clock) ELSE @,
                                   !.bursts = IF fresh THEN @ + 1 ELSE @,
                                   !.causes = @ \cup {msg.cause}]]
    /\ chan' = Tail(chan)
    /\ UNCHANGED <<clock, next_tick, loop, stats, nchanges, storeVars, migVars, ingestVars, auxVars, extVars>>

\* The tick handler's loop takes its next ready source: the pending entry is
\* removed and ingest_source is entered (watcher.rs 122-135).
StartRun(order, pending, h) ==
    LET s == Head(order)
    IN  /\ pending_events' = map_remove(pending, s)
        /\ loop' = [pc |-> "ingesting", cur |-> Some(s), rest |-> Tail(order)]
        /\ hist' = [h EXCEPT ![s].runs =
                      Append(@, [start |-> clock,
                                 last_recv |-> h[s].last_recv,
                                 burst_start |-> h[s].burst_start,
                                 causes |-> h[s].causes,
                                 still_pending |-> s \in DOMAIN map_remove(pending, s),
                                 failed |-> None]),
                             ![s].causes = {}]

\* select! takes the debounce_interval.tick() branch (watcher.rs 114-121).
Tick ==
    /\ loop.pc = "select"
    /\ clock >= next_tick
    /\ next_tick' = next_tick + tick_interval
    /\ LET ready == debounce_ready(pending_events, clock)
       IN  IF ready = {}
           THEN UNCHANGED <<pending_events, loop, hist>>
           ELSE \E order \in Orders(ready) : StartRun(order, pending_events, hist)
    /\ UNCHANGED <<clock, chan, stats, nchanges, storeVars, migVars, ingestVars, auxVars, extVars>>

\* IngestReturns with a loop that ends at the first Err of ingest_source.
IngestReturns_break_on_err ==
    /\ loop.pc = "ingesting"
    /\ \E ok \in BOOLEAN :
         LET s == loop.cur[1]
             h == IF ok THEN hist
                  ELSE [hist EXCEPT ![s].runs[Len(hist[s].runs)].failed = Some(clock)]
         IN  /\ stats' = IF ok THEN Append(stats, s) ELSE stats
             /\ IF loop.rest = <<>>
                THEN /\ loop' = [pc |-> IF ok THEN "select" ELSE "stopped",
                                 cur |-> None, rest |-> <<>>]
                     /\ hist' = h
                     /\ UNCHANGED pending_events
                ELSE StartRun(loop.rest, pending_events, h)
    /\ UNCHANGED <<clock, chan, next_tick, nchanges, storeVars, migVars, ingestVars, auxVars, extVars>>

\* ingest_source returns: an error is logged, a success is recorded in stats;
\* the loop goes on with the next ready source or back to select!.
IngestReturns ==
    /\ loop.pc = "ingesting"
    /\ \E ok \in BOOLEAN :
         LET s == loop.cur[1]
             h == IF ok THEN hist
                  ELSE [hist EXCEPT ![s].runs[Len(hist[s].runs)].failed = Some(clock)]
         IN  /\ stats' = IF ok THEN Append(stats, s) ELSE stats
             /\ IF loop.rest = <<>>
                THEN /\ loop' = [pc |-> "select", cur |-> None, rest |-> <<>>]
                     /\ hist' = h
                     /\ UNCHANGED pending_events
                ELSE StartRun(loop.rest, pending_events, h)
    /\ UNCHANGED <<clock, chan, next_tick, nchanges, storeVars, migVars, ingestVars, auxVars, extVars>>

\* Time passes. A task waiting at select! with a ready branch runs first.
Advance ==
    /\ clock < MaxWatchTime
    /\ ~(loop.pc = "select" /\ (chan # <<>> \/ clock >= next_tick))
    /\ clock' = clock + 1
    /\ UNCHANGED <<chan, pending_events, next_tick, loop, stats, nchanges, hist,
                   storeVars, migVars, ingestVars, auxVars, extVars>>

WatchNext ==
    \/ FsChange
    \/ Recv
    \/ Tick
    \/ IngestReturns
    \/ Advance

\* The variables of a watcher that is not part of the run.
WatchOff ==
    /\ clock = 0
    /\ chan = <<>>
    /\ pending_events = <<>>
    /\ next_tick = 0
    /\ loop = [pc |-> "off", cur |-> None, rest |-> <<>>]
    /\ stats = <<>>
    /\ nchanges = 0
    /\ hist = HistInit

\* ------------------------------------------------------------------ search

\* DateTime<Utc>::to_rfc3339() as the text SQLite compares. An instant t is
\* counted in half seconds. The text is a fixed-width date and time down to
\* the second (one digit stands for it), a fraction ".500" only when the
\* instant has one (SecondsFormat::AutoSi), and the offset "+00:00" (its
\* first character stands for it). Characters are their code points.
to_rfc3339(t) ==
    <<48 + (t \div 2)>> \o (IF t % 2 = 0 THEN <<>> ELSE <<46, 53, 48, 48>>) \o <<43>>

\* SQLite's comparison a >= b of two TEXT values (BINARY collation): the
\* first differing character decides, a proper prefix is smaller.
RECURSIVE text_ge(_, _)
text_ge(a, b) ==
    IF b = <<>> THEN TRUE
    ELSE IF a = <<>> THEN FALSE
    ELSE IF Head(a) # Head(b) THEN Head(a) > Head(b)
    ELSE text_ge(Tail(a), Tail(b))

\* The terms events_fts holds for a content value (one word per content here).
Tokens(content) == IF content = "" THEN {} ELSE {content}

\* Whether FTS5 accepts the MATCH expression: a lone double quote is a syntax
\* error, which the statement reports when it is stepped.
fts5_syntax_ok(query) == query # "\""

\* The rows the WHERE clause of queries::SEARCH_EVENTS_FILTERED keeps, over
\* events_fts JOIN events JOIN sessions; p are the bound parameters ?1..?5.
\* The triggers of migration 002 keep events_fts equal to events.
\* SEARCH_EVENTS_FILTERED with the project facet compared without the
\* empty-string sentinel: (s.project = ?3).
SEARCH_EVENTS_FILTERED_no_sentinel(stbl, etbl, p) ==
    {e \in etbl :
        \E s \in stbl :
            /\ e.session_id = s.id
            /\ p.query \in Tokens(e.content[1])
            /\ (p.source = "" \/ s.source = p.source)
            /\ s.project[1] = p.project
            /\ (p.kind = "" \/ e.kind = p.kind)
            /\ (p.since = <<>> \/ text_ge(to_rfc3339(e.timestamp), p.since))}

SEARCH_EVENTS_FILTERED(stbl, etbl, p) ==
    {e \in etbl :
        \E s \in stbl :
            /\ e.session_id = s.id
            /\ p.query \in Tokens(e.content[1])
            /\ (p.source = "" \/ s.source = p.source)
            /\ (p.project = "" \/ s.project[1] = p.project)
            /\ (p.kind = "" \/ e.kind = p.kind)
            /\ (p.since = <<>> \/ text_ge(to_rfc3339(e.timestamp), p.since))}

\* ORDER BY rank LIMIT ?6 OFFSET ?7 with offset 0 (every caller passes 0): the
\* limit best-ranked rows. The rank (bm25) is not modelled, so any limit of
\* the rows may be the page.
Pages(rows, limit) ==
    {P \in SUBSET rows :
        Cardinality(P) = IF Cardinality(rows) < limit THEN Cardinality(rows) ELSE limit}

\* The parameters Database::search_events binds: an absent facet becomes ''.
SearchParams(query, facets) ==
    [query |-> query,
     source |-> unwrap_or_default(facets.source),
     project |-> unwrap_or_default(facets.project),
     kind |-> unwrap_or_default(facets.kind),
     since |-> IF facets.since = None THEN <<>> ELSE to_rfc3339(facets.since[1])]

\* Database::search_events: the possible results [ok, rows] of one call.
search_events(db, query, facets, limit) ==
    IF ~fts5_syntax_ok(query) THEN {[ok |-> FALSE, rows |-> {}]}
    ELSE {[ok |-> TRUE, rows |-> P] :
            P \in Pages(SEARCH_EVENTS_FILTERED(db.sessions, db.events,
                                               SearchParams(query, facets)), limit)}

\* The sessions the searched store is filled with: two sources, one session
\* without a project and one with, each with one message.
SearchKeys == {<<"claude", "a">>, <<"codex", "a">>}

SearchContents ==
    {<<None, Some("t2"), 2, 2, 1, 1>>,
     <<Some("proj"), Some("t1"), 1, 3, 2, 1>>}

\* The facets and queries searches are made with.
SearchQueries == {"hello", "\""}

SearchFacets ==
    [source : {None, Some("codex")},
     project : {None, Some("proj"), Some("nope")},
     kind : {None, Some("message")},
     since : {None, Some(0), Some(2)}]

\* The limits of the callers: a small page and the CLI's 50.
SearchLimits == {1, 50}

NoSearch == [op |-> "none"]

SearchOff == search = NoSearch

\* A caller searches the store as it is now. A search reads only, so a run
\* follows one search call, made at any moment.
CallSearchEvents ==
    /\ search = NoSearch
    /\ \E query \in SearchQueries, facets \in SearchFacets, limit \in SearchLimits :
       \E r \in search_events(DB, query, facets, limit) :
          search' = [op |-> "search_events", query |-> query, facets |-> facets,
                     limit |-> limit, ok |-> r.ok, rows |-> r.rows, pre |-> DB]
    /\ UNCHANGED <<storeVars, migVars, ingestVars, watchVars, extVars>>
    /\ UNCHANGED <<pfile, parsed, datefilter, instant, cost, threads, runs, crush>>


\* ------------------------------------------------- variables not in use

\* No call made, nothing running.
Unused == [op |-> "none"]

ParseOff == pfile = Unused /\ parsed = Unused

DateFilterOff == datefilter = Unused

InstantOff == instant = Unused

CostOff == cost = Unused

ThreadsOff == threads = Unused

PureOff == DateFilterOff /\ InstantOff /\ CostOff /\ ThreadsOff

RunsOff == runs = Unused

CrushOff == crush = Unused

FtsOff == fts = Unused

MetricsOff == metrics = Unused

EntryOff == ingestrun = Unused

ExtOff == FtsOff /\ MetricsOff /\ EntryOff

AuxOff == SearchOff /\ ParseOff /\ PureOff /\ RunsOff /\ CrushOff /\ ExtOff

\* ------------------------------------------------------- claims on the store

\* The upsert statement of the last call was executed and succeeded.
UpsertDone == last.op # "none" /\ last.fail_at # 0

\* The last call found a row with its (source, external_id) already stored.
Conflicted == UpsertDone /\ \E r \in last.pre.sessions : Key(r) = Key(last.session)

\* C1: after any sequence of insert_session / insert_session_with_events calls
\* the sessions table holds exactly one row for every (source, external_id)
\* that was ever inserted, and no row for any other pair.
C1_OneRowPerKey ==
    \A key \in StoreKeys :
        Cardinality({r \in sessions : Key(r) = key}) = IF key \in inserted THEN 1 ELSE 0

\* C1 witness: a pair was inserted a second time while another pair is stored.
C1_Witness ==
    /\ Conflicted
    /\ last.ok
    /\ Cardinality(sessions) >= 2

\* C2: an upsert that meets an existing row keeps that row's id, created_at
\* (and project), sets title, updated_at and raw_payload to the values the
\* call binds, and leaves every other row as it was.
C2_UpsertFrame ==
    Conflicted =>
        \E old \in last.pre.sessions :
            /\ Key(old) = Key(last.session)
            /\ sessions = (last.pre.sessions \ {old}) \cup
                   {[id |-> old.id,
                     source |-> old.source,
                     external_id |-> old.external_id,
                     project |-> old.project,
                     title |-> IF last.session.title = None THEN Some("")
                               ELSE last.session.title,
                     created_at |-> old.created_at,
                     updated_at |-> last.session.updated_at,
                     raw_payload |-> last.session.raw_payload]}

\* C2 witness: insert_session met a row that differs from the new Session in
\* id, created_at, title, updated_at and raw_payload, with another row stored.
C2_Witness ==
    /\ last.op = "insert_session"
    /\ Conflicted
    /\ \E old \in last.pre.sessions :
          /\ Key(old) = Key(last.session)
          /\ old.id # last.session.id
          /\ old.created_at # last.session.created_at
          /\ old.updated_at # last.session.updated_at
          /\ old.title # last.session.title
          /\ old.raw_payload # last.session.raw_payload
    /\ \E other \in sessions : Key(other) # Key(last.session)

\* C3: every row of events has a session_id that is the id of a sessions row.
C3_EventsUnderPersistedSession ==
    \A e \in events : \E s \in sessions : s.id = e.session_id

\* C4: insert_session_with_events is all-or-nothing: when one of its event
\* inserts fails the call returns an error and the store is as it was before
\* the call.
C4_AllOrNothing ==
    (last.op = "insert_session_with_events" /\ last.fail_at # 0 /\ ~last.ok)
        => (sessions = last.pre.sessions /\ events = last.pre.events)


\* The event rows of database db stored for the session with key k: those
\* whose session_id is the id of the sessions row with that key.
EventsOf(db, k) ==
    {e \in db.events : \E s \in db.sessions : Key(s) = k /\ e.session_id = s.id}

\* C13: events are append-only. An insert_session_with_events call with k
\* events that meets no I/O failure succeeds, adds exactly k event rows and
\* changes or removes none, and the session has k more event rows than
\* before: so n ingestions of an unchanged session leave n*k rows for it.
C13_EventsAppendOnly ==
    (last.op = "insert_session_with_events" /\ last.fail_at = Len(last.events) + 1) =>
        /\ last.ok
        /\ last.pre.events \subseteq events
        /\ Cardinality(events) = Cardinality(last.pre.events) + Len(last.events)
        /\ Cardinality(EventsOf(DB, Key(last.session)))
              = Cardinality(EventsOf(last.pre, Key(last.session))) + Len(last.events)

\* Database::list_sessions with a limit that covers the table: each row as a
\* SessionRow; row.get gives None for a NULL column and Some(text) for a
\* TEXT column, the empty text included.
list_sessions(db) ==
    {[id |-> r.id, source |-> r.source, external_id |-> r.external_id,
      project |-> r.project, title |-> r.title, created_at |-> r.created_at,
      updated_at |-> r.updated_at, raw_payload |-> r.raw_payload] : r \in db.sessions}

\* Database::get_session_events: the EventRows of one session.
get_session_events(db, session_id) ==
    {[id |-> e.id, session_id |-> e.session_id, kind |-> e.kind, role |-> e.role,
      content |-> e.content, timestamp |-> e.timestamp] :
        e \in {x \in db.events : x.session_id = session_id}}

\* C29: absent optional fields survive a store round trip: a Session stored
\* as a new row with no project or no title, and its events with no role or
\* no content, are read back by list_sessions / get_session_events with
\* those fields as they were given, absent ones absent and not empty strings.
C29_AbsentFieldsRoundTrip ==
    (UpsertDone /\ last.ok /\ ~Conflicted) =>
        /\ \E r \in list_sessions(DB) :
              /\ r.id = last.session.id
              /\ r.project = last.session.project
              /\ r.title = last.session.title
        /\ \A i \in DOMAIN last.events :
              \E e \in get_session_events(DB, last.session.id) :
                  /\ e.id = last.events[i].id
                  /\ e.role = last.events[i].role
                  /\ e.content = last.events[i].content

Init == StoreInit /\ MigrateInit /\ IngestOff /\ WatchOff /\ AuxOff

Next == StoreNext

Spec == Init /\ [][Next]_vars

\* ------------------------------------------- the migration runner on its own

InitMigrate == StoreInit /\ foreign_keys /\ MigrateInit /\ IngestOff /\ WatchOff /\ AuxOff

NextMigrate == MigrateNext

SpecMigrate == InitMigrate /\ [][NextMigrate]_vars

\* C5: migrate() is idempotent. A call entered with every migration recorded
\* executes no migration statement and adds no _migrations row; at all times
\* the recorded names are the first names of MIGRATIONS, in list order, each
\* once.
C5_MigrateIdempotent ==
    /\ mig.complete_at_start => (mig.executed = 0 /\ mig.added = 0)
    /\ Len(migrations_table) <= Len(MIGRATIONS)
    /\ \A j \in DOMAIN migrations_table : migrations_table[j] = MIGRATIONS[j].name

\* C5 witness: a further migrate() call on a fully migrated database returned Ok.
C5_Witness ==
    /\ mig.complete_at_start
    /\ mig.pc = "returned"
    /\ mig.result = "ok"
    /\ mcalls >= 2

\* C6: when a migration's batch fails, migrate() returns an error, the
\* migration's name is not recorded, no later migration is attempted in that
\* call, and the next call that gets as far as that migration attempts it again.
C6_FailedMigrationNotRecorded ==
    /\ (mig.failed_at # 0) =>
          /\ mig.pc = "returned"
          /\ mig.result = "err"
          /\ MIGRATIONS[mig.failed_at].name \notin Range(migrations_table)
          /\ \A j \in mig.attempted : j <= mig.failed_at
    /\ (mprev.failed_at # 0 /\ mig.i > mprev.failed_at) =>
          mprev.failed_at \in mig.attempted

\* C6 witness: a batch failed after some of its statements took effect, and the
\* following call attempted that migration again.
C6_Witness ==
    /\ mprev.failed_at # 0
    /\ mprev.executed >= 2
    /\ mprev.failed_at \in mig.attempted

\* The statements of MIGRATIONS[i] that are in effect.
InEffect(i) == {j \in 1..Len(MIGRATIONS[i].sql) : <<MIGRATIONS[i].name, j>> \in schema}

\* C24: each migration is one unit of work: when migrate() has returned,
\* with Ok or with an error, every migration has either all of its statements
\* in effect and its name recorded, or none in effect and no name recorded.
C24_MigrationAtomic ==
    mig.pc = "returned" =>
        \A i \in DOMAIN MIGRATIONS :
            \/ /\ InEffect(i) = 1..Len(MIGRATIONS[i].sql)
               /\ MIGRATIONS[i].name \in Range(migrations_table)
            \/ /\ InEffect(i) = {}
               /\ MIGRATIONS[i].name \notin Range(migrations_table)

\* C25: migration recovery: a migrate() call that meets no failure cause of
\* its own (no I/O error), made after a call that failed with part of a
\* migration in effect, completes that migration and all following ones.
C25_MigrationRecovers ==
    (mig.pc = "returned" /\ ~mig.io_error) =>
        /\ mig.result = "ok"
        /\ AllRecorded(migrations_table)
        /\ \A i \in DOMAIN MIGRATIONS : InEffect(i) = 1..Len(MIGRATIONS[i].sql)

\* --------------------------------------------------- one batch ingestion

InitIngest == StoreInit /\ MigrateInit /\ IngestInit /\ WatchOff /\ AuxOff

NextIngest == IngestNext

SpecIngest == InitIngest /\ [][NextIngest]_vars

Stored(o) ==
    /\ \E s \in sessions : Key(s) = Key(o.session[1])
    /\ \A i \in DOMAIN o.events : \E e \in events : e.id = o.events[i].id

CountOf(what) == Cardinality({i \in DOMAIN batch.outcomes : batch.outcomes[i].what \in what})

\* C7: a batch visits every discovered descriptor: a failed parse or store is
\* counted and the batch goes on, so at the end imported + failed = total =
\* the number of descriptors, imported and failed count the successes and the
\* failures, and every descriptor that parsed and stored is in the store.
C7_BatchVisitsAll ==
    /\ batch.pc = "running" => batch.imported + batch.failed = batch.idx - 1
    /\ batch.pc = "done" =>
          /\ batch.result[1].imported + batch.result[1].failed = batch.result[1].total
          /\ batch.result[1].total = Len(batch.descriptors)
          /\ Len(batch.outcomes) = Len(batch.descriptors)
          /\ batch.result[1].imported = CountOf({"ok"})
          /\ batch.result[1].failed = CountOf({"parse_err", "store_err"})
          /\ \A i \in DOMAIN batch.outcomes :
                batch.outcomes[i].what = "ok" => Stored(batch.outcomes[i])

\* C7 witness: a finished batch of three descriptors whose first failed to
\* parse, whose second failed to store and whose third was imported.
C7_Witness ==
    /\ batch.pc = "done"
    /\ Len(batch.outcomes) = 3
    /\ batch.outcomes[1].what = "parse_err"
    /\ batch.outcomes[2].what = "store_err"
    /\ batch.outcomes[3].what = "ok"

\* C8: a discovered file whose content is malformed JSON is counted as failed
\* and creates no session; three files of which one is malformed and two are
\* well formed give imported = 2, failed = 1, total = 3 (no storage failure).
C8_MalformedFileFails ==
    batch.pc = "done" =>
        /\ \A i \in DOMAIN batch.descriptors :
              batch.descriptors[i].kind = "malformed" =>
                /\ batch.outcomes[i].what = "parse_err"
                /\ ~\E s \in sessions : Key(s) = <<batch.source, batch.descriptors[i].session_id>>
        /\ ( /\ Len(batch.descriptors) = 3
             /\ Cardinality({i \in 1..3 : batch.descriptors[i].kind = "malformed"}) = 1
             /\ Cardinality({i \in 1..3 : batch.descriptors[i].kind = "good"}) = 2
             /\ CountOf({"store_err"}) = 0 )
            => batch.result[1] = [imported |-> 2, failed |-> 1, total |-> 3]

\* ------------------------------------------------ the file watcher task

InitWatch == StoreInit /\ foreign_keys /\ MigrateInit /\ IngestOff /\ WatchInit /\ AuxOff

NextWatch == WatchNext

SpecWatch == InitWatch /\ [][NextWatch]_vars

\* C9: a re-ingestion of a pending source starts only when the task has
\* received no notification for that source for debounce_duration, and
\* starting it removes the pending entry; so the notifications of one burst
\* (each received less than debounce_duration after the one before) give one
\* run, after the last of them: no run starts inside a burst, a source has
\* no more runs than bursts, and an idle task leaves no source pending for
\* debounce_duration plus a tick.
C9_DebouncedSingleRun ==
    /\ \A s \in DOMAIN hist :
          /\ Len(hist[s].runs) <= hist[s].bursts
          /\ \A i \in DOMAIN hist[s].runs :
                LET r == hist[s].runs[i]
                IN  /\ r.last_recv # None
                    /\ r.start - r.last_recv[1] >= debounce_duration
                    /\ ~r.still_pending
    /\ (loop.pc = "ingesting") => (loop.cur[1] \notin DOMAIN pending_events)
    /\ (loop.pc = "select" /\ chan = <<>> /\ clock < next_tick) =>
          \A s \in DOMAIN pending_events :
              clock - pending_events[s] < debounce_duration + tick_interval

\* C9 witness: two notifications received at different times of one burst
\* were followed by a single run, and the task is idle again with nothing
\* pending and no change left.
C9_Witness ==
    /\ loop.pc = "select"
    /\ chan = <<>>
    /\ pending_events = <<>>
    /\ nchanges >= 2
    /\ Len(hist["claude"].runs) = 1
    /\ hist["claude"].runs[1].last_recv[1] > hist["claude"].runs[1].burst_start[1]

\* C10: a change under the watched directory of a source marks that source as
\* pending and leads to a re-ingestion of that source.
C10_ChangeReingestsItsSource ==
    \A s \in DOMAIN hist :
        /\ \A c \in hist[s].causes : c = s
        /\ \A i \in DOMAIN hist[s].runs : \A c \in hist[s].runs[i].causes : c = s

\* The runs of the tick handler that have returned, and those that returned Err.
ReturnedRuns ==
    {<<s, i>> \in (DOMAIN hist) \X (1..MaxChanges) :
        /\ i \in DOMAIN hist[s].runs
        /\ ~(loop.pc = "ingesting" /\ loop.cur[1] = s /\ i = Len(hist[s].runs))}

FailedRuns == {x \in ReturnedRuns : hist[x[1]].runs[x[2]].failed # None}

\* C19: a failed ingestion does not stop the watcher. The task is always
\* either waiting at select! or inside an ingestion; a run that returned an
\* error pushed no statistics and nothing else; and a notification received
\* after a failed run of its source is followed by a new run of that source:
\* it is pending until that run starts, and an idle task leaves it pending
\* for less than debounce_duration plus a tick.
C19_FailureDoesNotStopWatcher ==
    /\ loop.pc \in {"select", "ingesting"}
    /\ Len(stats) = Cardinality(ReturnedRuns \ FailedRuns)
    /\ \A x \in FailedRuns :
          LET s == x[1]
              runs_s == hist[s].runs
              t == runs_s[x[2]].failed[1]
              u == hist[s].last_recv[1]
          IN  u >= t =>
                \/ \E j \in DOMAIN runs_s : j > x[2] /\ runs_s[j].last_recv[1] = u
                \/ /\ s \in DOMAIN pending_events
                   /\ pending_events[s] = u
                   /\ (loop.pc = "select" /\ chan = <<>> /\ clock < next_tick) =>
                          clock - u < debounce_duration + tick_interval

\* C19 witness: the first run failed, a change notified after the failure
\* started a second run, which succeeded, and the task is waiting again.
C19_Witness ==
    /\ loop.pc = "select"
    /\ Len(hist["claude"].runs) = 2
    /\ hist["claude"].runs[1].failed # None
    /\ hist["claude"].runs[2].failed = None
    /\ hist["claude"].runs[2].burst_start[1] >= hist["claude"].runs[1].failed[1]
    /\ stats = <<"claude">>

\* ------------------------------------------------------ searching the store

MaxStored == 2

InitSearch ==
    /\ StoreInit /\ MigrateInit /\ IngestOff /\ WatchOff
    /\ SearchOff /\ ParseOff /\ PureOff /\ RunsOff /\ CrushOff
    /\ ExtOff

\* Sessions are ingested, and the store is searched at any moment.
NextSearch ==
    \/ IngestOne(SearchKeys, SearchContents, MaxStored)
    \/ CallSearchEvents

SpecSearch == InitSearch /\ [][NextSearch]_vars

\* The events of the searched store that belong to a session, with the
\* session's row.
Joined == {<<e, s>> \in search.pre.events \X search.pre.sessions : e.session_id = s.id}

\* What a facet asks of a joined row: nothing when unset or the empty string.
FacetHolds(f, value) == f = None \/ f[1] = "" \/ f[1] = value

\* C11: each facet of search_events acts on its own: an unset facet does not
\* restrict the result, a set facet keeps the events whose column equals it
\* (timestamp at or after since for the date facet), and a value no session
\* has gives an empty result, not an error. For a page the limit did not
\* cut, the result is exactly the matching events that pass every set facet;
\* a cut page holds only such events.
C11_FacetsIndependent ==
    (search.op = "search_events" /\ fts5_syntax_ok(search.query)) =>
        LET F == search.facets
            expected ==
                {j[1] : j \in {k \in Joined :
                    /\ search.query \in Tokens(k[1].content[1])
                    /\ FacetHolds(F.source, k[2].source)
                    /\ FacetHolds(F.project, k[2].project[1])
                    /\ FacetHolds(F.kind, k[1].kind)
                    /\ (F.since = None \/ k[1].timestamp >= F.since[1])}}
        IN  /\ search.ok
            /\ search.rows \subseteq expected
            /\ Cardinality(search.rows) < search.limit => search.rows = expected
            /\ Cardinality(search.rows) <= search.limit

\* C11 witness: with the project facet unset a search returned events of two
\* sessions with different projects, one stored with a fractional second
\* after the since instant.
C11_Witness ==
    /\ search.op = "search_events"
    /\ search.ok
    /\ search.facets.project = None
    /\ search.facets.since = Some(0)
    /\ \E e1 \in search.rows, e2 \in search.rows :
          \E s1 \in search.pre.sessions, s2 \in search.pre.sessions :
              /\ s1.id = e1.session_id
              /\ s2.id = e2.session_id
              /\ s1.project # s2.project
              /\ e1.timestamp = 1

\* --------------------------------------------------- parsing one session file

MaxLines == 3

\* The entries a session file is written with: messages stamped 1, 2 and 3, a
\* Claude summary entry (which has no timestamp), a line that is not JSON, an
\* entry of a type the adapter does not know, and an entry without a type
\* (Claude) or with a payload of a type the adapter does not know (Codex; a
\* Codex line without a type does not deserialize and is a BadLine).
ParseLineChoices(source) ==
    IF source = "claude"
    THEN {Line(TRUE, Some("user"), None, Some(1), Some("hello")),
          Line(TRUE, Some("assistant"), None, Some(2), Some("hi")),
          Line(TRUE, Some("user"), None, Some(3), Some("bye")),
          Line(TRUE, Some("summary"), None, None, Some("t1")),
          Line(TRUE, Some("mystery"), None, Some(2), None),
          Line(TRUE, None, None, Some(2), None),
          BadLine}
    ELSE {Line(TRUE, Some("response_item"), Some("message"), Some(1), Some("hello")),
          Line(TRUE, Some("event_msg"), Some("agent_reasoning"), Some(2), Some("hmm")),
          Line(TRUE, Some("response_item"), Some("message"), Some(3), Some("bye")),
          Line(TRUE, Some("session_meta"), None, Some(2), Some("proj")),
          Line(TRUE, Some("mystery"), None, Some(2), None),
          Line(TRUE, Some("event_msg"), Some("token_count"), Some(2), None),
          BadLine}

\* The descriptor discovery gives for the file.
ParseDescriptor ==
    [session_id |-> "a", project |-> "proj",
     file |-> [readable |-> TRUE, lines |-> pfile.lines]]

ParseInit ==
    /\ \E src \in {"claude", "codex"} :
       \E ls \in UNION {[1..n -> ParseLineChoices(src)] : n \in 0..1} :
          pfile = [op |-> "file", source |-> src, lines |-> ls]
    /\ parsed = Unused

\* The agent appends an entry to the file.
AppendLine ==
    /\ Len(pfile.lines) < MaxLines
    /\ \E l \in ParseLineChoices(pfile.source) :
          pfile' = [pfile EXCEPT !.lines = Append(@, l)]
    /\ UNCHANGED <<parsed, storeVars, migVars, ingestVars, watchVars, extVars>>
    /\ UNCHANGED <<search, datefilter, instant, cost, threads, runs, crush>>

\* An ingestion calls parse_session on the file.
ParseFile ==
    /\ parsed = Unused
    /\ \E now \in NowTimes :
          parsed' = [op |-> "parse_session", lines |-> pfile.lines,
                     result |-> parse_session(pfile.source, ParseDescriptor, now, nextUuid)]
    /\ nextUuid' = nextUuid + 1 + MaxLines
    /\ UNCHANGED <<sessions, events, foreign_keys, ncalls, last, inserted>>
    /\ UNCHANGED <<pfile, migVars, ingestVars, watchVars, extVars>>
    /\ UNCHANGED <<search, datefilter, instant, cost, threads, runs, crush>>

\* The ingestion stores what it parsed (no I/O failure).
StoreParsed ==
    /\ parsed # Unused
    /\ parsed.result.ok
    /\ ncalls < MaxStored
    /\ LET s == parsed.result.session
           evs == parsed.result.events
           r == insert_session_with_events(DB, s, evs, foreign_keys, Len(evs) + 1)
       IN  /\ sessions' = r.db.sessions
           /\ events' = r.db.events
           /\ last' = [op |-> "insert_session_with_events", ok |-> r.ok, session |-> s,
                       events |-> evs, fail_at |-> Len(evs) + 1, pre |-> DB]
           /\ inserted' = inserted \cup {Key(s)}
    /\ ncalls' = ncalls + 1
    /\ parsed' = Unused
    /\ UNCHANGED <<foreign_keys, nextUuid, pfile, migVars, ingestVars, watchVars, extVars>>
    /\ UNCHANGED <<search, datefilter, instant, cost, threads, runs, crush>>

InitParse ==
    /\ StoreInit /\ MigrateInit /\ IngestOff /\ WatchOff
    /\ SearchOff /\ ParseInit /\ PureOff /\ RunsOff /\ CrushOff
    /\ ExtOff

NextParse ==
    \/ AppendLine
    \/ ParseFile
    \/ StoreParsed

SpecParse == InitParse /\ [][NextParse]_vars

\* The timestamps of the entries of a file.
EntryTimes(lines) == {lines[i].ts[1] : i \in {j \in DOMAIN lines : lines[j].json /\ lines[j].ts # None}}

\* C12: every Session parse_session returns, and every sessions row, has
\* created_at <= updated_at, created_at being the earliest and updated_at the
\* latest timestamp among the entries, in whatever order the file has them.
C12_CreatedBeforeUpdated ==
    /\ (parsed # Unused /\ parsed.result.ok) =>
          LET s == parsed.result.session
              T == EntryTimes(parsed.lines)
          IN  /\ s.created_at <= s.updated_at
              /\ T # {} => /\ \A x \in T : s.created_at <= x
                           /\ \A x \in T : x <= s.updated_at
    /\ \A r \in sessions : r.created_at <= r.updated_at

\* The lines of a file that are accounted skips: those that do not parse and
\* the reserved metadata entry (summary for Claude, session_meta for Codex).
AccountedSkips(source, lines) ==
    {i \in DOMAIN lines :
        \/ ~lines[i].json
        \/ lines[i].type = Some(IF source = "claude" THEN "summary" ELSE "session_meta")}

\* C21: in both line-journal adapters every non-empty line yields exactly one
\* Event or is an accounted skip, so events + skips = non-empty lines.
C21_EveryLineAccounted ==
    (parsed # Unused /\ parsed.result.ok) =>
        Len(parsed.result.events)
            + Cardinality(AccountedSkips(pfile.source, parsed.lines)) = Len(parsed.lines)

\* ------------------------------------------------------ relative date filters

MaxFilterLen == 4

\* A filter text is a sequence of characters.
FilterChars == {"1", "x", "d", "h", "w", "m", "i", "n"}

FilterTexts == UNION {[1..n -> FilterChars] : n \in 1..MaxFilterLen}

\* str::ends_with
ends_with(s, suffix) ==
    /\ Len(s) >= Len(suffix)
    /\ SubSeq(s, Len(s) - Len(suffix) + 1, Len(s)) = suffix

\* s[..s.len() - 1]
strip_last(s) == SubSeq(s, 1, Len(s) - 1)

\* str::parse::<i64>: Ok for a non-empty run of digits (the only digit here
\* is 1), Err otherwise.
RECURSIVE digits_value(_)
digits_value(s) == IF s = <<>> THEN 0 ELSE 10 * digits_value(strip_last(s)) + 1

parse_i64(s) ==
    IF s # <<>> /\ \A i \in DOMAIN s : s[i] = "1"
    THEN [ok |-> TRUE, val |-> digits_value(s)]
    ELSE [ok |-> FALSE]

\* chrono::Duration in hours.
HoursOf(unit) == IF unit = "d" THEN 24 ELSE IF unit = "h" THEN 1
                 ELSE IF unit = "w" THEN 168 ELSE 720

\* What an entry point does with the filter: an error, or the query run with
\* the date bound since (None: run without a date filter).
Rejected == [ok |-> FALSE]
Ran(since) == [ok |-> TRUE, since |-> since]

\* parse_since of cli search.rs and stats.rs, and the ? of their run().
cli_parse_since(s) ==
    LET n == parse_i64(strip_last(s))
        unit == s[Len(s)]
    IN  IF ends_with(s, <<"d">>) \/ ends_with(s, <<"h">>) \/ ends_with(s, <<"w">>)
           \/ (ends_with(s, <<"m">>) /\ ~ends_with(s, <<"m", "i", "n">>))
        THEN IF n.ok THEN Ran(Some(n.val * HoursOf(unit))) ELSE Rejected
        ELSE Rejected

\* parse_since of cli export.rs.
export_parse_since(s) ==
    LET n == parse_i64(strip_last(s))
        unit == s[Len(s)]
    IN  IF ends_with(s, <<"d">>) \/ ends_with(s, <<"h">>) \/ ends_with(s, <<"w">>)
        THEN IF n.ok THEN [ok |-> TRUE, val |-> Some(n.val * HoursOf(unit))]
             ELSE [ok |-> TRUE, val |-> None]
        ELSE [ok |-> FALSE]

\* export_search: since.and_then(|s| parse_since(&s).ok().flatten()).
export_search(s) ==
    LET r == export_parse_since(s)
    IN  IF r.ok THEN Ran(r.val) ELSE Ran(None)

\* parse_duration of the desktop commands: None for whatever it cannot read.
parse_duration(s) ==
    LET n == parse_i64(strip_last(s))
        unit == s[Len(s)]
    IN  IF ends_with(s, <<"d">>) \/ ends_with(s, <<"h">>) \/ ends_with(s, <<"w">>)
           \/ (ends_with(s, <<"m">>) /\ ~ends_with(s, <<"m", "i", "n">>))
        THEN IF n.ok THEN Some(n.val * HoursOf(unit)) ELSE None
        ELSE None

\* The desktop commands: since.and_then(|s| parse_duration(&s)).
desktop_command(s) == Ran(parse_duration(s))

DateFilterInit == \E s \in FilterTexts : datefilter = [op |-> "input", text |-> s]

DateFilterCall(entry, outcome) ==
    /\ datefilter.op = "input"
    /\ datefilter' = [op |-> entry, text |-> datefilter.text, outcome |-> outcome]
    /\ UNCHANGED <<storeVars, migVars, ingestVars, watchVars, extVars>>
    /\ UNCHANGED <<search, pfile, parsed, instant, cost, threads, runs, crush>>

CliSearch == DateFilterCall("cli_search", cli_parse_since(datefilter.text))

CliStats == DateFilterCall("cli_stats", cli_parse_since(datefilter.text))

CliExport == DateFilterCall("cli_export", export_search(datefilter.text))

DesktopSearchEvents == DateFilterCall("desktop_search_events", desktop_command(datefilter.text))

DesktopStats == DateFilterCall("desktop_stats", desktop_command(datefilter.text))

InitDateFilter ==
    /\ StoreInit /\ foreign_keys /\ MigrateInit /\ IngestOff /\ WatchOff
    /\ SearchOff /\ ParseOff /\ RunsOff /\ CrushOff
    /\ DateFilterInit /\ InstantOff /\ CostOff /\ ThreadsOff
    /\ ExtOff

NextDateFilter ==
    \/ CliSearch
    \/ CliStats
    \/ CliExport
    \/ DesktopSearchEvents
    \/ DesktopStats

SpecDateFilter == InitDateFilter /\ [][NextDateFilter]_vars

\* A text whose suffix is one of the accepted forms Nd, Nh, Nw, Nm.
AcceptedSuffix(s) ==
    /\ s[Len(s)] \in {"d", "h", "w", "m"}
    /\ ~ends_with(s, <<"m", "i", "n">>)

\* C14: a relative date filter whose suffix is not one of Nd, Nh, Nw, Nm is
\* rejected with an error by every entry point; the query is never run as if
\* no date filter had been given.
C14_BadSuffixRejected ==
    (datefilter.op \notin {"none", "input"} /\ ~AcceptedSuffix(datefilter.text)) =>
        datefilter.outcome = Rejected

\* ------------------------------------------------------- integer timestamps

\* Integer timestamps are counted in units of 10^6 (seconds, or milliseconds):
\* instant 1704 is 1,704,000,000 s after the epoch (2023-12-31), its
\* millisecond encoding is 1000 * 1704 units of 10^6 ms.
MaxInstant == 2000

\* crush.rs 546: 1_000_000_000_000, in units of 10^6.
seconds_range_threshold == 1000000

\* The largest seconds value chrono accepts (about year 262,000), in units.
chrono_max_secs == 8210000

\* Utc::now() when a conversion runs, in units.
NowInstant == 1790

\* Utc.timestamp_opt(secs, 0).single() / DateTime::from_timestamp(secs, 0)
from_timestamp(secs) ==
    IF secs >= -chrono_max_secs /\ secs <= chrono_max_secs THEN Some(secs) ELSE None

\* crush.rs timestamp_to_datetime
timestamp_to_datetime(ts_millis) ==
    LET secs == IF ts_millis > seconds_range_threshold THEN ts_millis \div 1000
                ELSE ts_millis
        dt == from_timestamp(secs)
    IN  IF dt = None THEN NowInstant ELSE dt[1]

\* opencode.rs parse_session_file: from_timestamp(created / 1000, 0)
opencode_timestamp(created) ==
    LET dt == from_timestamp(created \div 1000)
    IN  IF dt = None THEN NowInstant ELSE dt[1]

InstantInit == \E s \in 0..MaxInstant : instant = [op |-> "input", s |-> s]

\* The Crush adapter reads the instant written as seconds and as milliseconds.
CrushTimestamp ==
    /\ instant.op = "input"
    /\ instant' = [op |-> "crush", s |-> instant.s,
                   from_seconds |-> timestamp_to_datetime(instant.s),
                   from_millis |-> timestamp_to_datetime(1000 * instant.s)]
    /\ UNCHANGED <<storeVars, migVars, ingestVars, watchVars, extVars>>
    /\ UNCHANGED <<search, pfile, parsed, datefilter, cost, threads, runs, crush>>

\* The OpenCode adapter reads the instant written as seconds and as milliseconds.
OpenCodeTimestamp ==
    /\ instant.op = "input"
    /\ instant' = [op |-> "opencode", s |-> instant.s,
                   from_seconds |-> opencode_timestamp(instant.s),
                   from_millis |-> opencode_timestamp(1000 * instant.s)]
    /\ UNCHANGED <<storeVars, migVars, ingestVars, watchVars, extVars>>
    /\ UNCHANGED <<search, pfile, parsed, datefilter, cost, threads, runs, crush>>

InitInstant ==
    /\ StoreInit /\ foreign_keys /\ MigrateInit /\ IngestOff /\ WatchOff
    /\ SearchOff /\ ParseOff /\ RunsOff /\ CrushOff
    /\ DateFilterOff /\ InstantInit /\ CostOff /\ ThreadsOff
    /\ ExtOff

NextInstant ==
    \/ CrushTimestamp
    \/ OpenCodeTimestamp

SpecInstant == InitInstant /\ [][NextInstant]_vars

\* C15: integer timestamps are normalized by magnitude, so that for every
\* instant its epoch-seconds encoding s and its epoch-milliseconds encoding
\* 1000*s normalize to the same UTC instant, the instant itself.
C15_SecondsAndMillisAgree ==
    instant.op \in {"crush", "opencode"} =>
        /\ instant.from_seconds = instant.from_millis
        /\ instant.from_millis = instant.s

\* ------------------------------------------------------------ calculate_cost

\* models.rs 186, 192: the input size above which the extended prices apply.
extended_context_threshold == 200000

\* ModelMetadata: prices per million tokens (whole dollars here).
ModelMetadatas ==
    [input_price_per_1m : {1, 10},
     output_price_per_1m : {2, 30},
     extended_input_price_per_1m : {None, Some(5)},
     extended_output_price_per_1m : {None, Some(7)}]

TokenCounts ==
    {0, 100000, extended_context_threshold - 1, extended_context_threshold,
     extended_context_threshold + 1, 250000}

\* Option::unwrap_or
unwrap_or(o, default) == IF o = None THEN default ELSE o[1]

\* calculate_cost with the tier of each side chosen from that side's tokens.
calculate_cost_tier_by_side(meta, input_tokens, output_tokens) ==
    LET input_price == IF input_tokens > extended_context_threshold
                       THEN unwrap_or(meta.extended_input_price_per_1m, meta.input_price_per_1m)
                       ELSE meta.input_price_per_1m
        output_price == IF output_tokens > extended_context_threshold
                        THEN unwrap_or(meta.extended_output_price_per_1m, meta.output_price_per_1m)
                        ELSE meta.output_price_per_1m
    IN  input_tokens * input_price + output_tokens * output_price

\* ModelMetadata::calculate_cost. The result is the cost in millionths of a
\* dollar: (tokens / 1,000,000) * price, times 1,000,000, is tokens * price.
calculate_cost(meta, input_tokens, output_tokens) ==
    LET input_price == IF input_tokens > extended_context_threshold
                       THEN unwrap_or(meta.extended_input_price_per_1m, meta.input_price_per_1m)
                       ELSE meta.input_price_per_1m
        output_price == IF input_tokens > extended_context_threshold
                        THEN unwrap_or(meta.extended_output_price_per_1m, meta.output_price_per_1m)
                        ELSE meta.output_price_per_1m
    IN  input_tokens * input_price + output_tokens * output_price

CostInit ==
    \E meta \in ModelMetadatas, i \in TokenCounts, o \in TokenCounts :
        cost = [op |-> "input", meta |-> meta, input_tokens |-> i, output_tokens |-> o]

CallCalculateCost ==
    /\ cost.op = "input"
    /\ cost' = [cost EXCEPT !.op = "calculate_cost"] @@
                [result |-> calculate_cost(cost.meta, cost.input_tokens, cost.output_tokens)]
    /\ UNCHANGED <<storeVars, migVars, ingestVars, watchVars, extVars>>
    /\ UNCHANGED <<search, pfile, parsed, datefilter, instant, threads, runs, crush>>

InitCost ==
    /\ StoreInit /\ foreign_keys /\ MigrateInit /\ IngestOff /\ WatchOff
    /\ SearchOff /\ ParseOff /\ RunsOff /\ CrushOff
    /\ DateFilterOff /\ InstantOff /\ CostInit /\ ThreadsOff
    /\ ExtOff

NextCost == CallCalculateCost

SpecCost == InitCost /\ [][NextCost]_vars

\* C16: calculate_cost chooses one tier from input_tokens alone: the base
\* prices for input_tokens <= 200,000 (200,000 included), the extended prices
\* for both sides above it whatever output_tokens is, with the base price for
\* a side that has no extended price.
C16_TierFromInputTokens ==
    cost.op = "calculate_cost" =>
        LET m == cost.meta
            ext_in == IF m.extended_input_price_per_1m = None THEN m.input_price_per_1m
                      ELSE m.extended_input_price_per_1m[1]
            ext_out == IF m.extended_output_price_per_1m = None THEN m.output_price_per_1m
                       ELSE m.extended_output_price_per_1m[1]
        IN  /\ cost.input_tokens <= 200000 =>
                  cost.result = cost.input_tokens * m.input_price_per_1m
                                + cost.output_tokens * m.output_price_per_1m
            /\ cost.input_tokens > 200000 =>
                  cost.result = cost.input_tokens * ext_in + cost.output_tokens * ext_out

\* C16 witness: exactly 200,000 input tokens and more output tokens than that,
\* with both extended prices present, were charged at the base prices.
C16_Witness ==
    /\ cost.op = "calculate_cost"
    /\ cost.input_tokens = 200000
    /\ cost.output_tokens = 250000
    /\ cost.meta.extended_input_price_per_1m # None
    /\ cost.meta.extended_output_price_per_1m # None
    /\ cost.result = 200000 * cost.meta.input_price_per_1m
                      + 250000 * cost.meta.output_price_per_1m

\* ----------------------------------------------------- overlapping ingestions

\* The two ingestions: the one the watcher fires (watcher.rs ingest_claude /
\* ingest_codex) and the one a command starts (commands/ingest.rs).
Runners == {"watcher", "manual"}

\* The one session file both of them find.
RunDescriptor(source) == discover_sessions(source, <<"good">>)[1]

RunIdle == [pc |-> "parse", session |-> None, events |-> <<>>, idx |-> 0, result |-> "none"]

RunsInit ==
    \E src \in {"claude", "codex"} :
        runs = [op |-> "runs", source |-> src, order |-> <<>>,
                run |-> [r \in Runners |-> RunIdle]]

\* adapter.parse_session(&session_file): the run reads the file.
RunParse(r) ==
    /\ runs.op = "runs"
    /\ runs.run[r].pc = "parse"
    /\ \E now \in NowTimes :
        LET p == parse_session(runs.source, RunDescriptor(runs.source), now, nextUuid)
        IN  /\ runs' = [runs EXCEPT !.run[r] = [@ EXCEPT !.pc = "upsert",
                                                         !.session = Some(p.session),
                                                         !.events = p.events]]
            /\ nextUuid' = nextUuid + 1 + Len(p.events)
    /\ UNCHANGED <<sessions, events, foreign_keys, ncalls, last, inserted>>
    /\ UNCHANGED <<migVars, ingestVars, watchVars, extVars>>
    /\ UNCHANGED <<search, pfile, parsed, datefilter, instant, cost, threads, crush>>

\* The first statement of insert_session_with_events: the session upsert.
RunUpsert(r) ==
    /\ runs.op = "runs"
    /\ runs.run[r].pc = "upsert"
    /\ LET res == insert_session(DB, runs.run[r].session[1], TRUE)
       IN  /\ sessions' = res.db.sessions
           /\ runs' = [runs EXCEPT
                         !.order = Append(@, r),
                         !.run[r] = IF ~res.ok
                                    THEN [@ EXCEPT !.pc = "done", !.result = "failed"]
                                    ELSE IF @.events = <<>>
                                    THEN [@ EXCEPT !.pc = "done", !.result = "imported"]
                                    ELSE [@ EXCEPT !.pc = "events", !.idx = 1]]
    /\ UNCHANGED <<events, foreign_keys, nextUuid, ncalls, last, inserted>>
    /\ UNCHANGED <<migVars, ingestVars, watchVars, extVars>>
    /\ UNCHANGED <<search, pfile, parsed, datefilter, instant, cost, threads, crush>>

\* One insert_event of the loop of insert_session_with_events; the first
\* error ends the call and the descriptor counts as failed.
RunInsertEvent(r) ==
    /\ runs.op = "runs"
    /\ runs.run[r].pc = "events"
    /\ LET me == runs.run[r]
           res == insert_event(DB, me.events[me.idx], foreign_keys, TRUE)
       IN  /\ events' = res.db.events
           /\ runs' = [runs EXCEPT
                         !.order = Append(@, r),
                         !.run[r] = IF ~res.ok
                                    THEN [@ EXCEPT !.pc = "done", !.result = "failed"]
                                    ELSE IF me.idx = Len(me.events)
                                    THEN [@ EXCEPT !.pc = "done", !.result = "imported"]
                                    ELSE [@ EXCEPT !.idx = @ + 1]]
    /\ UNCHANGED <<sessions, foreign_keys, nextUuid, ncalls, last, inserted>>
    /\ UNCHANGED <<migVars, ingestVars, watchVars, extVars>>
    /\ UNCHANGED <<search, pfile, parsed, datefilter, instant, cost, threads, crush>>

RunStep(r) == RunParse(r) \/ RunUpsert(r) \/ RunInsertEvent(r)

InitRuns ==
    /\ StoreInit /\ MigrateInit /\ IngestOff /\ WatchOff
    /\ SearchOff /\ ParseOff /\ PureOff /\ RunsInit /\ CrushOff
    /\ ExtOff

NextRuns ==
    \/ RunStep("watcher")
    \/ RunStep("manual")

\* Both ingestions are tasks of the runtime: each keeps being scheduled.
SpecRuns ==
    InitRuns /\ [][NextRuns]_vars /\ WF_vars(RunStep("watcher")) /\ WF_vars(RunStep("manual"))

BothDone == runs.op = "runs" /\ \A r \in Runners : runs.run[r].pc = "done"

\* What the store holds when run a ingests the file alone and run b after it.
OneAfterTheOther(a, b) ==
    LET empty == [sessions |-> {}, events |-> {}]
        r1 == insert_session_with_events(empty, a.session[1], a.events, foreign_keys,
                                         Len(a.events) + 1)
        r2 == insert_session_with_events(r1.db, b.session[1], b.events, foreign_keys,
                                         Len(b.events) + 1)
    IN  r2.db

\* At every moment of the overlap a (source, external_id) has at most one
\* row; when both runs are over it has exactly one and the store is what the
\* two runs leave when one re-ingests after the other: the rows of the run
\* that came second are the duplicates, nothing else differs.
OverlapOutcome ==
    /\ \A x \in sessions, y \in sessions : Key(x) = Key(y) => x = y
    /\ BothDone =>
          /\ Cardinality(sessions) = 1
          /\ \E x \in sessions : Key(x) = <<runs.source, "a">>
          /\ \/ DB = OneAfterTheOther(runs.run["watcher"], runs.run["manual"])
             \/ DB = OneAfterTheOther(runs.run["manual"], runs.run["watcher"])

MaxCrushTime == 7

MaxTouches == 2

crush_poll_interval == 3

CrushFiles == {"db1", "db2"}

\* CrushAdapter::discover_sessions yields one entry per session row, each carrying the path
\* of its database: a database with no session row contributes no entry.
crush_discover_sessions(dbs) == {f \in CrushFiles : dbs[f].listed}

needs_ingest_or_equal(found, meta_ok, dbs, last_check) ==
    \E f \in found : f \in meta_ok /\ dbs[f].mtime >= last_check

\* The for loop of watch_crush: metadata and modified() must both succeed and
\* the modification time must be later than last_check.
needs_ingest(found, meta_ok, dbs, last_check) ==
    \E f \in found : f \in meta_ok /\ dbs[f].mtime > last_check

NoPoll == [at |-> 0, prev_check |-> 0, sessions |-> {}, meta_ok |-> {},
           files |-> <<>>, runs |-> 0, finished |-> None]

CrushInit ==
    \E listed \in [CrushFiles -> BOOLEAN] :
        crush = [op |-> "crush", pc |-> "wait", clock |-> 0, last_check |-> 0,
                 next_tick |-> 0,
                 files |-> [f \in CrushFiles |-> [mtime |-> 0, listed |-> listed[f]]],
                 touches |-> 0, npolls |-> 0, nstats |-> 0, poll |-> NoPoll,
                 since |-> [f \in CrushFiles |-> TRUE]]

CrushUnchanged ==
    /\ UNCHANGED <<storeVars, migVars, ingestVars, watchVars, extVars>>
    /\ UNCHANGED <<search, pfile, parsed, datefilter, instant, cost, threads, runs>>

\* The Crush application writes one of its databases; the write may add the
\* first session row. since[f] records whether an ingestion has started
\* after the last write of f. Time stamps are totally ordered: a write made
\* after last_check was assigned carries a later time, so while the loop waits
\* a write falls on a later instant than last_check; a write made during an
\* ingestion is not later than the time the ingestion returns at.
CrushTouch ==
    /\ crush.op = "crush"
    /\ crush.touches < MaxTouches
    /\ crush.pc = "wait" => crush.clock > crush.last_check
    /\ \E f \in CrushFiles, listed \in BOOLEAN :
        /\ crush.files[f].listed => listed
        /\ crush' = [crush EXCEPT !.files[f] = [mtime |-> crush.clock, listed |-> listed],
                                  !.touches = @ + 1,
                                  !.since[f] = FALSE]
    /\ CrushUnchanged

\* Time passes; a due tick is taken before more time passes, an ingestion
\* in progress takes any time.
CrushAdvance ==
    /\ crush.op = "crush"
    /\ crush.clock < MaxCrushTime
    /\ crush.pc = "wait" => crush.clock < crush.next_tick
    /\ crush' = [crush EXCEPT !.clock = @ + 1]
    /\ CrushUnchanged

\* check_interval.tick() returns: discovery, the loop over the sessions, and
\* either the start of ingest_crush or the assignment to last_check.
CrushPoll ==
    /\ crush.op = "crush"
    /\ crush.pc = "wait"
    /\ crush.clock >= crush.next_tick
    /\ LET found == crush_discover_sessions(crush.files)
       IN  \E meta_ok \in SUBSET found :
            LET go == needs_ingest(found, meta_ok, crush.files, crush.last_check)
                rec == [at |-> crush.clock, prev_check |-> crush.last_check,
                        sessions |-> found, meta_ok |-> meta_ok,
                        files |-> crush.files,
                        runs |-> IF go THEN 1 ELSE 0,
                        finished |-> IF go THEN None ELSE Some(crush.clock)]
            IN  crush' = [crush EXCEPT
                    !.pc = IF go THEN "ingesting" ELSE "wait",
                    !.next_tick = @ + crush_poll_interval,
                    !.npolls = @ + 1,
                    !.last_check = IF go THEN @ ELSE crush.clock,
                    !.since = IF go THEN [f \in CrushFiles |-> TRUE] ELSE @,
                    !.poll = rec]
    /\ CrushUnchanged

\* ingest_crush returns: statistics are pushed on Ok, the error is logged on
\* Err, and last_check is assigned in both cases.
CrushIngestReturns ==
    /\ crush.op = "crush"
    /\ crush.pc = "ingesting"
    /\ \E ok \in BOOLEAN :
        crush' = [crush EXCEPT
            !.pc = "wait",
            !.nstats = IF ok THEN @ + 1 ELSE @,
            !.last_check = crush.clock,
            !.poll.finished = Some(crush.clock)]
    /\ CrushUnchanged

InitCrush ==
    /\ StoreInit /\ foreign_keys /\ MigrateInit /\ IngestOff /\ WatchOff
    /\ SearchOff /\ ParseOff /\ RunsOff /\ PureOff
    /\ CrushInit
    /\ ExtOff

NextCrush == CrushTouch \/ CrushAdvance \/ CrushPoll \/ CrushIngestReturns

SpecCrush == InitCrush /\ [][NextCrush]_vars

\* C18: at each poll watch_crush re-ingests exactly when a discovered
\* database file has a modification time later than the previous check time,
\* runs at most one re-ingestion in the poll, and once the poll is finished
\* the check time is the time the poll finished, ingestion or not.
C18_PurePoll ==
    (crush.op = "crush" /\ crush.npolls > 0) =>
        LET p == crush.poll
            modified == \E f \in p.sessions :
                            f \in p.meta_ok /\ p.files[f].mtime > p.prev_check
        IN  /\ (p.runs > 0) <=> modified
            /\ p.runs <= 1
            /\ crush.pc = "ingesting" <=> (p.runs = 1 /\ p.finished = None)
            /\ crush.pc = "wait" =>
                  /\ p.finished # None
                  /\ crush.last_check = p.finished[1]
                  /\ crush.last_check >= p.at
                  /\ crush.last_check >= p.prev_check

\* A poll that re-ingested has been followed by a poll that found nothing new
\* and still moved the check time.
C18_Witness ==
    /\ crush.op = "crush"
    /\ crush.npolls >= 2
    /\ crush.nstats = 1
    /\ crush.pc = "wait"
    /\ crush.poll.runs = 0
    /\ crush.poll.sessions # {}
    /\ crush.last_check = crush.poll.at
    /\ crush.last_check > crush.poll.prev_check

\* Files with sessions whose last write no ingestion has started after.
PendingWrites == {f \in crush_discover_sessions(crush.files) : ~crush.since[f]}

\* C27: every modification of a Crush database made while watch_crush runs is
\* followed by a re-ingestion that starts after it, also one made while a
\* poll's discovery or re-ingestion is in progress. A later poll re-ingests
\* only for a modification time above last_check, and last_check never
\* decreases: so while the loop waits for its next tick, every write that no
\* ingestion has started after must not be older than last_check.
C27_WriteNotBehindLastCheck ==
    (crush.op = "crush" /\ crush.pc = "wait") =>
        \A f \in PendingWrites : crush.files[f].mtime >= crush.last_check

\* --------------------------------------- Claude conversation threads
\* ClaudeAdapter::rebuild_conversations over the events of one session. Of an
\* event only what the function reads is kept: the uuid, parentUuid and type
\* of its raw payload and its timestamp.

MaxThreadEvents == 3

ThreadUuids == {"a", "b"}

\* The events of the inputs: every uuid with every parent (absent, its own,
\* another node's, or one that may not be observed) at two times, and one
\* event whose payload has a uuid and no type.
ThreadEvents ==
    [uuid : {None} \cup {Some(u) : u \in ThreadUuids},
     parentUuid : {None} \cup {Some(u) : u \in ThreadUuids},
     type : {Some("user")},
     timestamp : {1, 2}]
    \cup {[uuid |-> Some("a"), parentUuid |-> None, type |-> None, timestamp |-> 1]}

\* event_to_node: None when the payload has no string uuid or no string type.
event_to_node(event) ==
    IF event.uuid = None \/ event.type = None THEN None
    ELSE Some([uuid |-> event.uuid[1], parent_uuid |-> event.parentUuid,
               event_type |-> event.type[1], timestamp |-> event.timestamp])

\* events.iter().filter_map(event_to_node).collect()
RECURSIVE filter_map_nodes(_)
filter_map_nodes(evs) ==
    IF evs = <<>> THEN <<>>
    ELSE LET n == event_to_node(Head(evs))
         IN  (IF n = None THEN <<>> ELSE <<n[1]>>) \o filter_map_nodes(Tail(evs))

\* sort_by on the timestamp: a stable sort, equal timestamps keep their order.
RECURSIVE insert_by_timestamp(_, _)
insert_by_timestamp(sorted, n) ==
    IF sorted = <<>> THEN <<n>>
    ELSE IF Head(sorted).timestamp <= n.timestamp
         THEN <<Head(sorted)>> \o insert_by_timestamp(Tail(sorted), n)
         ELSE <<n>> \o sorted

RECURSIVE sort_by_timestamp(_)
sort_by_timestamp(nodes) ==
    IF nodes = <<>> THEN <<>>
    ELSE insert_by_timestamp(sort_by_timestamp(SubSeq(nodes, 1, Len(nodes) - 1)),
                             nodes[Len(nodes)])

\* SelectSeq with the root test of rebuild_conversations.
RECURSIVE roots_of(_, _)
roots_of(nodes, uuid_set) ==
    IF nodes = <<>> THEN <<>>
    ELSE LET n == Head(nodes)
             is_root == n.parent_uuid = None \/ n.parent_uuid[1] \notin uuid_set
         IN  (IF is_root THEN <<n.uuid>> ELSE <<>>) \o roots_of(Tail(nodes), uuid_set)

\* rebuild_conversations with only the parentless nodes as roots.
rebuild_conversations_parentless(evs) ==
    LET nodes == sort_by_timestamp(filter_map_nodes(evs))
        roots == SelectSeq(nodes, LAMBDA n : n.parent_uuid = None)
    IN  [i \in 1..Len(roots) |-> [root_uuid |-> roots[i].uuid, nodes |-> nodes]]

rebuild_conversations(evs) ==
    LET nodes == sort_by_timestamp(filter_map_nodes(evs))
        uuid_set == {nodes[i].uuid : i \in DOMAIN nodes}
        roots == roots_of(nodes, uuid_set)
    IN  [i \in 1..Len(roots) |-> [root_uuid |-> roots[i], nodes |-> nodes]]

ThreadsInit ==
    \E n \in 0..MaxThreadEvents :
        \E evs \in [1..n -> ThreadEvents] :
            threads = [op |-> "input", events |-> evs]

CallRebuildConversations ==
    /\ threads.op = "input"
    /\ threads' = [op |-> "rebuild_conversations", events |-> threads.events,
                   result |-> rebuild_conversations(threads.events)]
    /\ UNCHANGED <<storeVars, migVars, ingestVars, watchVars, extVars>>
    /\ UNCHANGED <<search, pfile, parsed, datefilter, instant, cost, runs, crush>>

InitThreads ==
    /\ StoreInit /\ foreign_keys /\ MigrateInit /\ IngestOff /\ WatchOff
    /\ SearchOff /\ ParseOff /\ RunsOff /\ CrushOff
    /\ DateFilterOff /\ InstantOff /\ CostOff /\ ThreadsInit
    /\ ExtOff

NextThreads == CallRebuildConversations

SpecThreads == InitThreads /\ [][NextThreads]_vars

\* The events of the input that are observed nodes (a uuid and a type), and
\* those of them that are roots.
ObservedAt == {i \in DOMAIN threads.events :
                  threads.events[i].uuid # None /\ threads.events[i].type # None}

RootsAt ==
    {i \in ObservedAt :
        \/ threads.events[i].parentUuid = None
        \/ ~\E j \in ObservedAt : threads.events[j].uuid = threads.events[i].parentUuid}

\* C20: rebuild_conversations returns one thread per root, the roots being
\* exactly the observed nodes whose parent uuid is absent or is the uuid of
\* no observed node; for the events {a, no parent} and {b, parent a} it
\* returns exactly one thread, rooted at a, that contains both nodes.
C20_OneThreadPerRoot ==
    threads.op = "rebuild_conversations" =>
        LET res == threads.result
        IN  /\ Len(res) = Cardinality(RootsAt)
            /\ \A u \in ThreadUuids :
                  Cardinality({k \in DOMAIN res : res[k].root_uuid = u})
                    = Cardinality({i \in RootsAt : threads.events[i].uuid[1] = u})
            /\ ( /\ Len(threads.events) = 2
                 /\ threads.events[1].uuid = Some("a")
                 /\ threads.events[1].parentUuid = None
                 /\ threads.events[1].type # None
                 /\ threads.events[2].uuid = Some("b")
                 /\ threads.events[2].parentUuid = Some("a")
                 /\ threads.events[1].timestamp <= threads.events[2].timestamp )
               => /\ Len(res) = 1
                  /\ res[1].root_uuid = "a"
                  /\ Len(res[1].nodes) = 2
                  /\ {res[1].nodes[k].uuid : k \in 1..2} = {"a", "b"}

\* C20 witness: three events were rebuilt into two threads, one rooted at a
\* parentless node and one at a node whose parent was not observed, while the
\* third node has an observed parent.
C20_Witness ==
    /\ threads.op = "rebuild_conversations"
    /\ Len(threads.events) = 3
    /\ Len(threads.result) = 2
    /\ \E i \in RootsAt : threads.events[i].parentUuid = None
    /\ \E i \in RootsAt : threads.events[i].parentUuid # None
    /\ Cardinality(ObservedAt) = 3

\* ------------------------------------------ the full-text shadow tables
\* Migration 002: events_fts and sessions_fts are FTS5 tables with external
\* content, kept by AFTER INSERT / DELETE / UPDATE triggers on events and
\* sessions. A base row is identified by its rowid (both tables have a TEXT
\* primary key, so the rowid is implicit); an index is the set of the
\* <<rowid, text>> entries it holds.

MaxStatements == 5

FtsKeys == {"k1", "k2"}

FtsTitles == {"", "t1"}

FtsContents == {"", "x", "y"}

\* The rowid SQLite gives a new row of a table without AUTOINCREMENT: one
\* more than the largest rowid in use.
next_rowid(tbl) ==
    IF tbl = {} THEN 1
    ELSE 1 + CHOOSE m \in {r.rowid : r \in tbl} : \A r \in tbl : r.rowid <= m

\* INSERT INTO x_fts(rowid, col) VALUES (...)
fts5_insert(idx, rowid, text) == idx \cup {<<rowid, text>>}

\* INSERT INTO x_fts(x_fts, rowid, col) VALUES ('delete', ...): removes the
\* entry made of exactly these values.
fts5_delete(idx, rowid, text) == idx \ {<<rowid, text>>}

events_fts_insert(idx, new) == fts5_insert(idx, new.rowid, new.content)

events_fts_delete(idx, old) == fts5_delete(idx, old.rowid, old.content)

\* events_fts_update without its 'delete' statement.
events_fts_update_insert_only(idx, old, new) ==
    fts5_insert(idx, new.rowid, new.content)

events_fts_update(idx, old, new) ==
    fts5_insert(fts5_delete(idx, old.rowid, old.content), new.rowid, new.content)

sessions_fts_insert(idx, new) == fts5_insert(idx, new.rowid, new.title)

sessions_fts_delete(idx, old) == fts5_delete(idx, old.rowid, old.title)

sessions_fts_update(idx, old, new) ==
    fts5_insert(fts5_delete(idx, old.rowid, old.title), new.rowid, new.title)

\* A DELETE that removes the rows gone of events: the delete trigger runs
\* once for each of them.
RECURSIVE delete_events(_, _)
delete_events(d, gone) ==
    IF gone = {} THEN d
    ELSE LET old == CHOOSE r \in gone : TRUE
         IN  delete_events([d EXCEPT !.events = @ \ {old},
                                     !.events_fts = events_fts_delete(@, old)],
                           gone \ {old})

\* queries::INSERT_SESSION with its triggers: a new row fires the insert
\* trigger, the conflict branch fires the update trigger (the rowid stays).
fts_INSERT_SESSION(d, id, key, title) ==
    IF \E r \in d.sessions : r.key = key
    THEN LET old == CHOOSE r \in d.sessions : r.key = key
             new == [old EXCEPT !.title = title]
         IN  [d EXCEPT !.sessions = (@ \ {old}) \cup {new},
                       !.sessions_fts = sessions_fts_update(@, old, new)]
    ELSE LET new == [rowid |-> next_rowid(d.sessions), id |-> id, key |-> key, title |-> title]
         IN  [d EXCEPT !.sessions = @ \cup {new},
                       !.sessions_fts = sessions_fts_insert(@, new)]

\* queries::INSERT_EVENT with its trigger; with foreign keys enforced the
\* statement fails when no session has the id.
fts_INSERT_EVENT(d, session_id, content, fk) ==
    IF fk /\ ~\E s \in d.sessions : s.id = session_id THEN d
    ELSE LET new == [rowid |-> next_rowid(d.events), session_id |-> session_id,
                     content |-> content]
         IN  [d EXCEPT !.events = @ \cup {new},
                       !.events_fts = events_fts_insert(@, new)]

\* UPDATE events SET content = ? for one row.
fts_UPDATE_EVENT(d, old, content) ==
    LET new == [old EXCEPT !.content = content]
    IN  [d EXCEPT !.events = (@ \ {old}) \cup {new},
                  !.events_fts = events_fts_update(@, old, new)]

\* queries::DELETE_EVENTS_BY_SESSION_ID
fts_DELETE_EVENTS_BY_SESSION_ID(d, session_id) ==
    delete_events(d, {e \in d.events : e.session_id = session_id})

\* DELETE FROM sessions for one row; with foreign keys enforced ON DELETE
\* CASCADE deletes its events, which fires their delete trigger.
fts_DELETE_SESSION(d, old, fk) ==
    LET d1 == [d EXCEPT !.sessions = @ \ {old},
                        !.sessions_fts = sessions_fts_delete(@, old)]
    IN  IF fk THEN delete_events(d1, {e \in d1.events : e.session_id = old.id}) ELSE d1

FtsInit ==
    fts = [op |-> "db", sessions |-> {}, events |-> {}, sessions_fts |-> {},
           events_fts |-> {}, nstmts |-> 0, nextid |-> 1, did |-> {}]

FtsDb == [sessions |-> fts.sessions, events |-> fts.events,
          sessions_fts |-> fts.sessions_fts, events_fts |-> fts.events_fts]

\* One statement was executed and left the database d.
FtsStep(d, what) ==
    /\ fts.op = "db"
    /\ fts.nstmts < MaxStatements
    /\ fts' = [op |-> "db", sessions |-> d.sessions, events |-> d.events,
               sessions_fts |-> d.sessions_fts, events_fts |-> d.events_fts,
               nstmts |-> fts.nstmts + 1, nextid |-> fts.nextid + 1,
               did |-> fts.did \cup {what}]
    /\ UNCHANGED <<storeVars, migVars, ingestVars, watchVars, auxVars>>
    /\ UNCHANGED <<metrics, ingestrun>>

FtsInsertSession ==
    \E key \in FtsKeys, title \in FtsTitles :
        FtsStep(fts_INSERT_SESSION(FtsDb, fts.nextid, key, title),
                IF \E r \in fts.sessions : r.key = key THEN "upsert_update" ELSE "upsert_insert")

FtsInsertEvent ==
    \E sid \in {s.id : s \in fts.sessions} \cup {0}, content \in FtsContents :
        FtsStep(fts_INSERT_EVENT(FtsDb, sid, content, foreign_keys), "insert_event")

FtsUpdateEvent ==
    \E old \in fts.events, content \in FtsContents :
        FtsStep(fts_UPDATE_EVENT(FtsDb, old, content), "update_event")

FtsDeleteEvents ==
    \E s \in fts.sessions :
        /\ \E e \in fts.events : e.session_id = s.id
        /\ FtsStep(fts_DELETE_EVENTS_BY_SESSION_ID(FtsDb, s.id), "delete_events")

FtsDeleteSession ==
    \E old \in fts.sessions :
        FtsStep(fts_DELETE_SESSION(FtsDb, old, foreign_keys), "delete_session")

InitFts ==
    /\ StoreInit /\ MigrateInit /\ IngestOff /\ WatchOff
    /\ SearchOff /\ ParseOff /\ PureOff /\ RunsOff /\ CrushOff
    /\ FtsInit /\ MetricsOff /\ EntryOff

NextFts ==
    \/ FtsInsertSession
    \/ FtsInsertEvent
    \/ FtsUpdateEvent
    \/ FtsDeleteEvents
    \/ FtsDeleteSession

SpecFts == InitFts /\ [][NextFts]_vars

\* C22: after any sequence of inserts, updates (the conflict branch of the
\* session upsert included) and deletes, events_fts holds exactly one entry
\* per events row, with that row's current content, and sessions_fts one
\* entry per sessions row, with that row's current title.
C22_ShadowTablesInSync ==
    fts.op = "db" =>
        /\ fts.events_fts = {<<e.rowid, e.content>> : e \in fts.events}
        /\ Cardinality(fts.events_fts) = Cardinality(fts.events)
        /\ fts.sessions_fts = {<<s.rowid, s.title>> : s \in fts.sessions}
        /\ Cardinality(fts.sessions_fts) = Cardinality(fts.sessions)

\* C22 witness: a session upsert took its conflict branch, an event was
\* updated, the events of a session were deleted, and the session is left.
C22_Witness ==
    /\ fts.op = "db"
    /\ {"upsert_update", "update_event", "delete_events"} \subseteq fts.did
    /\ fts.sessions # {}
    /\ fts.events = {}

\* ------------------------------------------------- table session_metrics
\* A metrics row keeps, of the 22 columns, one count and one nullable value of
\* migration 003 (total_events, duration_seconds), one column migration 005
\* added (estimated_cost) and computed_at; every column takes the same path
\* through the upsert statement.

MaxComputations == 3

MaxMetricEvents == 2

MetricSessions == {"s1", "s2"}

\* compute_session_metrics: the metrics vector re-derived from the events the
\* session has now (their number, and the seconds from the first to the last),
\* stamped with the time of the computation.
compute_session_metrics(session_id, nevents, now) ==
    [session_id |-> session_id,
     total_events |-> nevents,
     duration_seconds |-> IF nevents = 0 THEN None ELSE Some(nevents - 1),
     estimated_cost |-> IF nevents = 0 THEN None ELSE Some(3 * nevents),
     computed_at |-> now]

\* UPSERT_SESSION_METRICS with a conflict branch that leaves out the columns
\* migration 005 added.
UPSERT_SESSION_METRICS_003_columns(tbl, row) ==
    IF \E r \in tbl : r.session_id = row.session_id
    THEN LET old == CHOOSE r \in tbl : r.session_id = row.session_id
         IN  (tbl \ {old}) \cup {[row EXCEPT !.estimated_cost = old.estimated_cost]}
    ELSE tbl \cup {row}

\* queries::UPSERT_SESSION_METRICS: session_id is the primary key; the
\* conflict branch sets every other column to the excluded value.
UPSERT_SESSION_METRICS(tbl, row) ==
    IF \E r \in tbl : r.session_id = row.session_id
    THEN LET old == CHOOSE r \in tbl : r.session_id = row.session_id
         IN  (tbl \ {old}) \cup
                {[session_id |-> old.session_id,
                  total_events |-> row.total_events,
                  duration_seconds |-> row.duration_seconds,
                  estimated_cost |-> row.estimated_cost,
                  computed_at |-> row.computed_at]}
    ELSE tbl \cup {row}

MetricsInit ==
    metrics = [op |-> "db", session_metrics |-> {},
               nevents |-> [s \in MetricSessions |-> 0],
               now |-> 1, ncomp |-> 0,
               computed |-> [s \in MetricSessions |-> None],
               last |-> None]

\* A re-ingestion adds an event to a session.
MetricsAddEvent ==
    /\ metrics.op = "db"
    /\ \E s \in MetricSessions :
        /\ metrics.nevents[s] < MaxMetricEvents
        /\ metrics' = [metrics EXCEPT !.nevents[s] = @ + 1]
    /\ UNCHANGED <<storeVars, migVars, ingestVars, watchVars, auxVars>>
    /\ UNCHANGED <<fts, ingestrun>>

\* compute_session_metrics(s) is called and stores its row. computed[s]
\* remembers the last computation of s, last the call just made.
MetricsCompute ==
    /\ metrics.op = "db"
    /\ metrics.ncomp < MaxComputations
    /\ \E s \in MetricSessions :
        LET row == compute_session_metrics(s, metrics.nevents[s], metrics.now)
        IN  metrics' = [metrics EXCEPT
                !.session_metrics = UPSERT_SESSION_METRICS(@, row),
                !.now = @ + 1,
                !.ncomp = @ + 1,
                !.computed[s] = Some([row |-> row, nevents |-> metrics.nevents[s]]),
                !.last = Some([session_id |-> s,
                               before |-> metrics.computed[s],
                               pre |-> metrics.session_metrics])]
    /\ UNCHANGED <<storeVars, migVars, ingestVars, watchVars, auxVars>>
    /\ UNCHANGED <<fts, ingestrun>>

InitMetrics ==
    /\ StoreInit /\ foreign_keys /\ MigrateInit /\ IngestOff /\ WatchOff
    /\ SearchOff /\ ParseOff /\ PureOff /\ RunsOff /\ CrushOff
    /\ FtsOff /\ MetricsInit /\ EntryOff

NextMetrics == MetricsAddEvent \/ MetricsCompute

SpecMetrics == InitMetrics /\ [][NextMetrics]_vars

\* The metric columns of a row: all but the key and the computation time.
MetricColumns(r) ==
    [total_events |-> r.total_events, duration_seconds |-> r.duration_seconds,
     estimated_cost |-> r.estimated_cost]

MaxEntryInserts == 2

EntryPoints ==
    {"cli_ingest", "desktop_ingest_source", "desktop_ingest_all_sources",
     "api_ingest_source", "watch"}

\* Whether the entry point calls db.migrate() on the handle it inserts with:
\* run and the ingest commands do right after open_default; run_watch_mode
\* and Watcher::open_db do not.
calls_migrate(e) == e # "watch"

\* Database::open_default / open: the file is created when missing; a new
\* file has no table and no recorded migration.
open_default(r) ==
    [r EXCEPT !.file_exists = TRUE,
              !.applied = IF r.file_exists THEN @ ELSE 0]

\* insert_session_with_events on a database with the first `applied`
\* migrations in effect: the sessions and events tables come from 001.
entry_insert_ok(applied) == applied >= 1

EntryInit ==
    \E e \in EntryPoints, exists \in BOOLEAN, n \in 0..Len(MIGRATIONS) :
        /\ (~exists => n = 0)
        /\ ingestrun = [op |-> "entry", entry |-> e, pc |-> "start",
                        file_exists |-> exists, applied |-> n,
                        ninserts |-> 0, first_insert |-> None]

EntryUnchanged ==
    /\ UNCHANGED <<storeVars, migVars, ingestVars, watchVars, auxVars>>
    /\ UNCHANGED <<fts, metrics>>

\* Database::open_default().await? (run, ingest_source, open_db).
EntryOpen ==
    /\ ingestrun.op = "entry"
    /\ \/ ingestrun.pc = "start"
       \/ ingestrun.entry = "watch" /\ ingestrun.pc = "inserting"
          /\ ingestrun.ninserts < MaxEntryInserts
    /\ ingestrun' = [open_default(ingestrun) EXCEPT !.pc = "opened"]
    /\ EntryUnchanged

\* db.migrate().await?: every migration not yet recorded is applied; on an
\* error the entry point returns before it ingests anything.
EntryMigrate ==
    /\ ingestrun.op = "entry"
    /\ ingestrun.pc = "opened"
    /\ calls_migrate(ingestrun.entry)
    /\ \E ok \in BOOLEAN :
        ingestrun' = [ingestrun EXCEPT
            !.pc = IF ok THEN "migrated" ELSE "failed",
            !.applied = IF ok THEN Len(MIGRATIONS) ELSE @]
    /\ EntryUnchanged

\* db.insert_session_with_events(&session, &events) for one parsed session;
\* the watcher discards the result (let _ =).
EntryInsert ==
    /\ ingestrun.op = "entry"
    /\ ingestrun.ninserts < MaxEntryInserts
    /\ \/ calls_migrate(ingestrun.entry) /\ ingestrun.pc \in {"migrated", "inserting"}
       \/ ~calls_migrate(ingestrun.entry) /\ ingestrun.pc \in {"opened", "inserting"}
    /\ ingestrun' = [ingestrun EXCEPT
            !.pc = "inserting",
            !.ninserts = @ + 1,
            !.first_insert =
                IF @ = None
                THEN Some([applied |-> ingestrun.applied,
                           ok |-> entry_insert_ok(ingestrun.applied)])
                ELSE @]
    /\ EntryUnchanged

InitEntry ==
    /\ StoreInit /\ foreign_keys /\ MigrateInit /\ IngestOff /\ WatchOff
    /\ SearchOff /\ ParseOff /\ PureOff /\ RunsOff /\ CrushOff
    /\ FtsOff /\ MetricsOff /\ EntryInit

NextEntry == EntryOpen \/ EntryMigrate \/ EntryInsert

SpecEntry == InitEntry /\ [][NextEntry]_vars

\* C26: in every ingestion entry point all schema migrations have been
\* applied to the database before the first insert_session_with_events call
\* of the run, also when the database file did not exist before.
C26_MigratedBeforeFirstInsert ==
    (ingestrun.op = "entry" /\ ingestrun.first_insert # None) =>
        ingestrun.first_insert[1].applied = Len(MIGRATIONS)


\* ---------------------------------------------------------------------------
\* Watcher::watch_source for a file-backed source (watcher.rs 163-223): the
\* callback sends SystemTime::now() with try_send; the task receives one
\* message, sleeps debounce_duration, empties the channel and ingests.
\* loop = [pc, source, wake]; hist = [notes, runs] is the history the claims
\* are stated on: notes are the notifications in the order the callback ran,
\* each with its time and whether try_send dropped it; a run records its start,
\* the time its message was received and how many notifications came before.
\* ---------------------------------------------------------------------------

FileSources == {"claude", "codex", "opencode"}

WsInitChan(n) == [i \in 1..n |-> [ts |-> 0]]

WsInitWith(n) ==
    /\ clock = 0
    /\ chan = WsInitChan(n)
    /\ pending_events = <<>>
    /\ next_tick = 0
    /\ \E s \in FileSources : loop = [pc |-> "recv", source |-> s, wake |-> 0]
    /\ stats = <<>>
    /\ nchanges = 0
    /\ hist = [notes |-> <<>>, runs |-> <<>>, recv_at |-> None]

\* The notify callback of watch_source: tx.try_send(SystemTime::now()).
WsFsChange ==
    /\ nchanges < MaxChanges
    /\ nchanges' = nchanges + 1
    /\ chan' = try_send(chan, [ts |-> clock])
    /\ hist' = [hist EXCEPT !.notes =
                   Append(@, [at |-> clock, dropped |-> Len(chan) >= channel_capacity])]
    /\ UNCHANGED <<clock, pending_events, next_tick, loop, stats,
                   storeVars, migVars, ingestVars, auxVars, extVars>>

\* rx.recv().await returns a message; tokio::time::sleep(debounce_duration)
\* is entered.
WsRecv ==
    /\ loop.pc = "recv"
    /\ chan # <<>>
    /\ chan' = Tail(chan)
    /\ loop' = [loop EXCEPT !.pc = "sleep", !.wake = clock + debounce_duration]
    /\ hist' = [hist EXCEPT !.recv_at = Some(clock)]
    /\ UNCHANGED <<clock, pending_events, next_tick, stats, nchanges,
                   storeVars, migVars, ingestVars, auxVars, extVars>>

\* The sleep is over: while rx.try_recv().is_ok() {} empties the channel and
\* ingest_source(source) is entered.
WsWake ==
    /\ loop.pc = "sleep"
    /\ clock >= loop.wake
    /\ chan' = <<>>
    /\ loop' = [loop EXCEPT !.pc = "ingesting"]
    /\ hist' = [hist EXCEPT !.runs =
                   Append(@, [start |-> clock, recv_at |-> hist.recv_at[1],
                              notes_before |-> Len(hist.notes),
                              drained |-> Len(chan)])]
    /\ UNCHANGED <<clock, pending_events, next_tick, stats, nchanges,
                   storeVars, migVars, ingestVars, auxVars, extVars>>

\* ingest_source returns: statistics are pushed on Ok, the error is logged
\* on Err; the task is back at rx.recv().
WsIngestReturns ==
    /\ loop.pc = "ingesting"
    /\ \E ok \in BOOLEAN :
         stats' = IF ok THEN Append(stats, loop.source) ELSE stats
    /\ loop' = [loop EXCEPT !.pc = "recv"]
    /\ UNCHANGED <<clock, chan, pending_events, next_tick, nchanges, hist,
                   storeVars, migVars, ingestVars, auxVars, extVars>>

\* Time passes. A task whose recv or sleep is ready runs first.
WsAdvance ==
    /\ clock < MaxWatchTime
    /\ ~(loop.pc = "recv" /\ chan # <<>>)
    /\ ~(loop.pc = "sleep" /\ clock >= loop.wake)
    /\ clock' = clock + 1
    /\ UNCHANGED <<chan, pending_events, next_tick, loop, stats, nchanges, hist,
                   storeVars, migVars, ingestVars, auxVars, extVars>>

InitWatchSource ==
    /\ StoreInit /\ foreign_keys /\ MigrateInit /\ IngestOff /\ WsInitWith(0) /\ AuxOff

NextWatchSource == WsFsChange \/ WsRecv \/ WsWake \/ WsIngestReturns \/ WsAdvance

SpecWatchSource == InitWatchSource /\ [][NextWatchSource]_vars

\* The notifications the callback handled before run r started.
NotesBefore(r) == {hist.notes[i].at : i \in 1..r.notes_before}

\* C28: in watch_source an ingestion starts only once the source has had no
\* notification for at least debounce_duration, so that a burst gives one run
\* that starts after the burst's last notification.
C28_StartsAfterQuietPeriod ==
    \A i \in DOMAIN hist.runs :
        \A t \in NotesBefore(hist.runs[i]) :
            hist.runs[i].start - t >= debounce_duration


\* ---------------------------------------------------------------------------
\* watch_all with its notification channel full: the callback thread handled
\* a burst of changes under the Claude directory before the task was polled,
\* so the channel holds channel_capacity (or one less) messages at the start.
\* ---------------------------------------------------------------------------

FullChan(n) == [i \in 1..n |-> [source |-> callback_source("claude"), cause |-> "claude"]]

WatchFullInit ==
    /\ clock = 0
    /\ \E n \in {channel_capacity - 1, channel_capacity} : chan = FullChan(n)
    /\ pending_events = <<>>
    /\ next_tick = 0
    /\ loop = [pc |-> "select", cur |-> None, rest |-> <<>>]
    /\ stats = <<>>
    /\ nchanges = 0
    /\ hist = HistInit

InitWatchFull ==
    StoreInit /\ foreign_keys /\ MigrateInit /\ IngestOff /\ WatchFullInit /\ AuxOff

NextWatchFull == WatchNext

SpecWatchFull == InitWatchFull /\ [][NextWatchFull]_vars

\* The watcher has nothing left to do: no message, no pending source, no run.
WatchQuiet == loop.pc = "select" /\ chan = <<>> /\ pending_events = <<>>

\* C30: no change is lost to the bounded channel: when try_send dropped the
\* notification of a change because the channel was full, an ingestion of the
\* source that changed starts after the change; so once the watcher has
\* nothing left to do, a run of that source has started since the drop.
C30_DroppedChangeIngested ==
    WatchQuiet =>
        \A c \in WatchedSources :
            hist[c].dropped # None =>
                Len(hist[c].runs) > hist[c].dropped[1].runs_before

====
